---- MODULE Spec2Model ----
(* MarketMind adaptive trader: the learning arbiter (LearningEngine), the   *)
(* risk validator (RiskManager) and the orchestrator (MarketMindCore).      *)
(*                                                                          *)
(* Number representation.  The source computes with IEEE doubles; the model *)
(* computes with exact decimals held as integers:                           *)
(*   weights and confidences   in hundredths        (1.0  = 100)            *)
(*   risk parameters           in tenths            (6.0% = 60, 1.5 = 15)   *)
(*   prices                    in tenths of a point (inputs are whole       *)
(*                             points, i.e. multiples of 10)                *)
(*   volumes                   in hundredths of a lot (0.01 lot = 1)        *)
(*   money                     in whole account-currency units              *)
(* A nullable value (T | null) is a sequence of length 0 or 1.              *)
EXTENDS Integers, Sequences, FiniteSets, Bags, TLC

VARIABLES
    \* ---- LearningEngine (core.ts 331-432)
    strategyWeights,     \* Map<string, number>: a function on the keys present
    symbolPerformance,   \* Map<string, Map<string, number>>
    lastTrade,           \* the history entry of the last updateFromTrade call
    candidates,          \* argument of the last selectBestSignal call
    selected,            \* its result (nullable)
    scores               \* the totalScore it computed for each candidate

learnVars == <<strategyWeights, symbolPerformance, lastTrade, candidates, selected,
               scores>>

VARIABLES
    \* ---- RiskManager (risk/manager.ts)
    riskParams,          \* RiskParams
    dailyStartBalance,
    dailyPL,
    isTradeBlocked,
    resetPc,             \* position of a resetDailyTracking call in flight
    validation,          \* nullable: the validateTrade call of the last step
                         \* (the signal passed, the responses, the result
                         \* and the passed object after the call)
    monitorLog,          \* requests the monitorPositions call of the last step sent
    monitored            \* the nullable position list that call obtained

riskVars == <<riskParams, dailyStartBalance, dailyPL, isTradeBlocked, resetPc,
              validation, monitorLog, monitored>>

VARIABLES
    \* ---- MT5Connection and the broker behind it
    isConnected,         \* MT5Connection.isConnected
    brokerPositions,     \* the broker's open positions
    \* ---- MarketMindCore (core.ts 12-326)
    isRunning,
    analysisInterval,    \* nullable timer id
    timers,              \* the live setInterval timers: [id, kind]
    nextTimerId,
    startsInFlight,      \* start() calls awaiting connect()
    strategyActive,      \* isActive of each registered strategy
    symbolEntries,       \* activeSymbols: the Set's entries in insertion order
    signalHistory,
    cycles,              \* analysis-timer callbacks in flight: a bag of tasks
    monitors,            \* monitoring-timer callbacks in flight: a bag of tasks
    analysed,            \* nullable: the analyzeSymbol call of the last step
    startReturn,         \* nullable: what the start() call of the last step returned
    lastRequest          \* nullable: the gateway request the last step sent

coreVars == <<isConnected, brokerPositions, isRunning, analysisInterval, timers,
              nextTimerId, startsInFlight, strategyActive, symbolEntries, signalHistory,
              cycles, monitors, analysed, startReturn, lastRequest>>

VARIABLES
    \* ---- SMCStrategy (strategies/smc.ts)
    orderBlocks,         \* OrderBlock[]
    liquidityZones,      \* LiquidityZone[]
    fairValueGaps,       \* FairValueGap[]
    analyzeCall,         \* nullable: the analyze call of the last step
    \* ---- BaseStrategy (strategies/base.ts)
    totalTrades          \* performance.totalTrades of each registered strategy

smcVars == <<orderBlocks, liquidityZones, fairValueGaps, analyzeCall, totalTrades>>

VARIABLES
    \* ---- MT5Connection.sendRequest (mt5/connection.ts)
    now,                 \* Date.now(), in milliseconds
    sentRequests         \* the sendRequest calls made, in order: the id and
                         \* the action sent, whether the call's message
                         \* listener is registered, whether the bridge has
                         \* answered it, and what its promise resolved with

wireVars == <<now, sentRequests>>

VARIABLES
    lastOp               \* name of the operation the last step performed

vars == <<learnVars, riskVars, coreVars, smcVars, wireVars, lastOp>>

None == <<>>
Some(x) == <<x>>

Max(a, b) == IF a >= b THEN a ELSE b
Min(a, b) == IF a <= b THEN a ELSE b
Abs(a) == IF a < 0 THEN -a ELSE a

\* Map.set(k, v)
MapSet(m, k, v) == [x \in (DOMAIN m) \cup {k} |-> IF x = k THEN v ELSE m[x]]

(***************************************************************************)
(* LearningEngine                                                          *)
(***************************************************************************)
DefaultWeight == 100      \* 1.0
WeightFloor == 10         \* 0.1
WeightCeil == 200         \* 2.0
StrategyWinStep == 5      \* +0.05
StrategyLossStep == 2     \* -0.02
SymbolWinStep == 3        \* +0.03
SymbolLossStep == 1       \* -0.01

\* strategies the constructor gives a weight
PresetStrategies == {"SMC", "ICT", "ORB", "TurtleSoup"}
\* the name SMCStrategy puts in its signals
SMCName == "SMC (Smart Money)"

\* m.get(k) || 1.0 : undefined and 0 both give the default
GetOrDefault(m, k) == IF k \in DOMAIN m /\ m[k] # 0 THEN m[k] ELSE DefaultWeight

\* Math.max(0.1, Math.min(2.0, w))
ClampNoCeil(w) == Max(WeightFloor, w)
ClampWeight(w) == Max(WeightFloor, Min(WeightCeil, w))

\* getSymbolWeight on a given symbolPerformance map
SymbolWeightIn(sp, strategy, symbol) ==
    IF symbol \in DOMAIN sp THEN GetOrDefault(sp[symbol], strategy) ELSE DefaultWeight

getSymbolWeight(strategy, symbol) == SymbolWeightIn(symbolPerformance, strategy, symbol)

\* simplified in the source: always 1.0
getMarketConditionWeight == 1

\* The stored weights are doubles: a weight the model holds as 1.20 is any
\* of the doubles near 1.2 that sums of +0.05 and -0.02 produce, and a
\* product of doubles is rounded.  The computed totalScore is therefore the
\* exact decimal product displaced by a rounding that is far smaller than
\* the distance of two different decimal products and that is the same for
\* the same operands.  rounding: the displacement, in half units, of each
\* <<confidence, strategy>> of the call.
RoundingErrors == {0, 1}
ScoreOperands(signals) ==
    {<<signals[i].confidence, signals[i].strategy>> : i \in 1..Len(signals)}
Roundings(signals) == [ScoreOperands(signals) -> RoundingErrors]

\* confidence * strategyWeight * symbolWeight * marketConditionWeight
\* (half hundredths^3)
TotalScore(signal, symbol, rounding) ==
    2 * (signal.confidence * GetOrDefault(strategyWeights, signal.strategy)
           * getSymbolWeight(signal.strategy, symbol) * getMarketConditionWeight)
      + rounding[<<signal.confidence, signal.strategy>>]

\* the loop of selectBestSignal: index of bestSignal (0 = null) after
\* visiting signals[i..]
RECURSIVE BestLoop(_, _, _, _, _, _)
BestLoop(signals, symbol, rounding, i, bestIdx, bestScore) ==
    IF i > Len(signals) THEN bestIdx
    ELSE IF TotalScore(signals[i], symbol, rounding) > bestScore
         THEN BestLoop(signals, symbol, rounding, i + 1, i,
                       TotalScore(signals[i], symbol, rounding))
         ELSE BestLoop(signals, symbol, rounding, i + 1, bestIdx, bestScore)

selectBestSignal(signals, symbol, rounding) ==
    IF Len(signals) = 0 THEN None
    ELSE IF Len(signals) = 1 THEN Some(signals[1])
    ELSE LET b == BestLoop(signals, symbol, rounding, 1, 0, 0)
         IN  IF b = 0 THEN None ELSE Some(signals[b])

\* the scores the call computes: none for fewer than two candidates
computedScores(signals, symbol, rounding) ==
    IF Len(signals) <= 1 THEN <<>>
    ELSE [i \in 1..Len(signals) |-> TotalScore(signals[i], symbol, rounding)]

\* the two weights updateFromTrade writes, from the maps sw and sp
NewSymbolWeightStrategySteps(sp, strategy, symbol, isWin) ==
    ClampWeight(SymbolWeightIn(sp, strategy, symbol)
                + (IF isWin THEN StrategyWinStep ELSE -StrategyLossStep))

NewStrategyWeight(sw, strategy, isWin) ==
    ClampWeight(GetOrDefault(sw, strategy)
                + (IF isWin THEN StrategyWinStep ELSE -StrategyLossStep))

NewSymbolWeight(sp, strategy, symbol, isWin) ==
    ClampWeight(SymbolWeightIn(sp, strategy, symbol)
                + (IF isWin THEN SymbolWinStep ELSE -SymbolLossStep))

\* updateFromTrade with one map of strategy weights shared by all symbols
ApplyTradeSharedSymbolMap(w, history) ==
    IF history.outcome = None THEN w
    ELSE LET strategy == history.signal.strategy
             symbol == history.signal.symbol
             isWin == history.outcome[1].result = "win"
             newSymbolWeight == NewSymbolWeight(w.symbolPerformance, strategy, symbol, isWin)
         IN  [strategyWeights |->
                  MapSet(w.strategyWeights, strategy,
                         NewStrategyWeight(w.strategyWeights, strategy, isWin)),
              symbolPerformance |->
                  [y \in (DOMAIN w.symbolPerformance) \cup {symbol} |->
                      MapSet(IF y \in DOMAIN w.symbolPerformance
                             THEN w.symbolPerformance[y] ELSE <<>>,
                             strategy, newSymbolWeight)]]

\* updateFromTrade as a function of the two maps.
\* history: [signal, outcome], outcome nullable [result: "win" / "loss"]
ApplyTrade(w, history) ==
    IF history.outcome = None THEN w
    ELSE LET strategy == history.signal.strategy
             symbol == history.signal.symbol
             isWin == history.outcome[1].result = "win"
             symbolMap == IF symbol \in DOMAIN w.symbolPerformance
                          THEN w.symbolPerformance[symbol]
                          ELSE <<>>
         IN  [strategyWeights |->
                  MapSet(w.strategyWeights, strategy,
                         NewStrategyWeight(w.strategyWeights, strategy, isWin)),
              symbolPerformance |->
                  MapSet(w.symbolPerformance, symbol,
                         MapSet(symbolMap, strategy,
                                NewSymbolWeight(w.symbolPerformance, strategy, symbol,
                                                isWin)))]

Weights == [strategyWeights |-> strategyWeights, symbolPerformance |-> symbolPerformance]

updateFromTrade(history) ==
    /\ strategyWeights' = ApplyTrade(Weights, history).strategyWeights
    /\ symbolPerformance' = ApplyTrade(Weights, history).symbolPerformance

LearningEngineInit ==
    /\ strategyWeights = [s \in PresetStrategies |-> DefaultWeight]
    /\ symbolPerformance = <<>>
    /\ lastTrade = None
    /\ candidates = <<>>
    /\ selected = None
    /\ scores = <<>>

(***************************************************************************)
(* RiskManager                                                             *)
(***************************************************************************)
\* the parameters of the exported singleton
DefaultRiskParams ==
    [maxRiskPerTrade |-> 20,      \* 2.0 %
     maxDailyLoss |-> 60,         \* 6.0 %
     maxOpenPositions |-> 5,
     minRiskReward |-> 15,        \* 1.5
     maxSpread |-> 30,            \* 3.0 pips
     newsFilterEnabled |-> TRUE]

BlockedReason == "Trading blocked due to daily loss limit"
NoAccountReason == "Cannot retrieve account information"
DailyLossReason == "Daily loss limit reached"
MaxPositionsReason == "Maximum open positions reached"
NoMarketDataReason == "Cannot retrieve market data for spread check"
SpreadReason == "Spread too wide"
SizeReason == "Unable to calculate valid position size"
ErrorReason == "Validation error"
ValidReason == "Trade validated successfully"

\* currentDailyLoss >= maxDailyLoss, with maxDailyLoss = start * pct / 100
DailyLossExceededStrict(accountInfo) ==
    (dailyStartBalance - accountInfo.balance) * 1000
        > dailyStartBalance * riskParams.maxDailyLoss

DailyLossReached(accountInfo) ==
    (dailyStartBalance - accountInfo.balance) * 1000
        >= dailyStartBalance * riskParams.maxDailyLoss

\* isTradeBlocked after checkDailyLossLimit has run on accountInfo
BlockedAfterCheck(accountInfo) ==
    IF DailyLossReached(accountInfo) THEN TRUE ELSE isTradeBlocked

\* checkMaxPositions on the fetched list: TRUE = passed
MaxPositionsPassedOffByOne(positions) == ~(Len(positions) > riskParams.maxOpenPositions)

MaxPositionsPassed(positions) == ~(Len(positions) >= riskParams.maxOpenPositions)

\* checkSpread on the fetched tick: TRUE = passed
SpreadPassed(marketData) == ~(marketData.spread > riskParams.maxSpread)

\* Math.round(a / b) for b > 0: the nearest integer, halves upwards
RoundDiv(a, b) == (2 * a + b) \div (2 * b)

\* IEEE NaN, held as a value no volume takes.  Every comparison with NaN is
\* false and Math.max / Math.min return NaN when an argument is NaN.
NaN == -1

\* calculatePositionSize with symbolInfo present.  riskAmount / (distance /
\* point) lots is equity * maxRiskPerTrade / distance hundredths of a lot
\* (distance in tenths of a point).  A zero distance divides a positive
\* risk amount to +Infinity, which Math.min cuts to volumeMax, a negative
\* one to -Infinity, which Math.max lifts to volumeMin, and a zero risk
\* amount to NaN, which passes through Math.round, Math.min and Math.max.
SizeFromInfo(signal, accountInfo, symbolInfo) ==
    LET distance == Abs(signal.entry - signal.stopLoss)
        riskAmount == accountInfo.equity * riskParams.maxRiskPerTrade
        rounded == IF distance = 0
                   THEN IF riskAmount > 0 THEN symbolInfo.volumeMax
                        ELSE symbolInfo.volumeMin
                   ELSE RoundDiv(riskAmount, distance * symbolInfo.volumeStep)
                            * symbolInfo.volumeStep
    IN  IF distance = 0 /\ riskAmount = 0 THEN NaN
        ELSE Max(symbolInfo.volumeMin, Min(symbolInfo.volumeMax, rounded))

\* symbolInfo is the nullable getSymbolInfo response
calculatePositionSize(signal, accountInfo, symbolInfo) ==
    IF symbolInfo = None THEN 0 ELSE SizeFromInfo(signal, accountInfo, symbolInfo[1])

adjustStopLoss(signal) == signal.stopLoss

\* currentRR < minRiskReward; a zero risk distance gives Infinity (or NaN),
\* which is not below the minimum
BelowMinRR(signal) ==
    LET riskDistance == Abs(signal.entry - signal.stopLoss)
        rewardDistance == Abs(signal.takeProfit - signal.entry)
    IN  riskDistance # 0 /\ rewardDistance * 10 < riskParams.minRiskReward * riskDistance

adjustTakeProfitAlwaysUp(signal) ==
    IF BelowMinRR(signal)
    THEN signal.entry
           + (Abs(signal.entry - signal.stopLoss) * riskParams.minRiskReward) \div 10
    ELSE signal.takeProfit

adjustTakeProfit(signal) ==
    LET minReward == (Abs(signal.entry - signal.stopLoss) * riskParams.minRiskReward) \div 10
    IN  IF BelowMinRR(signal)
        THEN IF signal.action = "BUY" THEN signal.entry + minReward
             ELSE signal.entry - minReward
        ELSE signal.takeProfit

Reject(reason, calls) ==
    [isValid |-> FALSE, reason |-> reason, adjustedSignal |-> None,
     positionSize |-> None, calls |-> calls]

\* validateTrade on the responses of its collaborator calls.  resp holds the
\* nullable response of each call; a call that is not made leaves its
\* response unread.  calls lists the requests made, in order.
validateTrade(signal, resp) ==
    IF isTradeBlocked THEN Reject(BlockedReason, <<>>)
    ELSE IF resp.account = None THEN Reject(NoAccountReason, <<"getAccountInfo">>)
    ELSE IF DailyLossReached(resp.account[1])
         THEN Reject(DailyLossReason, <<"getAccountInfo">>)
    \* positions.length of a null response throws, caught at the end
    ELSE IF resp.positions = None
         THEN Reject(ErrorReason, <<"getAccountInfo", "getPositions">>)
    ELSE IF ~MaxPositionsPassed(resp.positions[1])
         THEN Reject(MaxPositionsReason, <<"getAccountInfo", "getPositions">>)
    ELSE IF resp.tick = None
         THEN Reject(NoMarketDataReason,
                     <<"getAccountInfo", "getPositions", "getMarketData">>)
    ELSE IF ~SpreadPassed(resp.tick[1])
         THEN Reject(SpreadReason, <<"getAccountInfo", "getPositions", "getMarketData">>)
    ELSE LET allCalls == <<"getAccountInfo", "getPositions", "getMarketData",
                           "getSymbolInfo">>
             positionSize == calculatePositionSize(signal, resp.account[1], resp.info)
         \* positionSize <= 0 is false of NaN
         IN  IF positionSize # NaN /\ positionSize <= 0 THEN Reject(SizeReason, allCalls)
             ELSE [isValid |-> TRUE, reason |-> ValidReason,
                   adjustedSignal |->
                       Some([signal EXCEPT !.stopLoss = adjustStopLoss(signal),
                                           !.takeProfit = adjustTakeProfit(signal)]),
                   positionSize |-> Some(positionSize),
                   calls |-> allCalls]

\* the object the caller passed as signal, once validateTrade(signal, resp)
\* has returned: the method reads its fields and assigns none, and the
\* adjusted signal is a new object built by spreading it
SignalArgumentAdjusted(signal, resp) ==
    IF validateTrade(signal, resp).isValid
    THEN validateTrade(signal, resp).adjustedSignal[1]
    ELSE signal

SignalArgument(signal, resp) == signal

\* isTradeBlocked once validateTrade(signal, resp) has returned
BlockedAfterValidate(resp) ==
    IF ~isTradeBlocked /\ resp.account # None
    THEN BlockedAfterCheck(resp.account[1])
    ELSE isTradeBlocked

Asked(result, call) == \E i \in 1..Len(result.calls) : result.calls[i] = call

NoResp == [account |-> None, positions |-> None, tick |-> None, info |-> None]

\* ---- position monitoring
\* |currentPrice - openPrice| >= 1.5 * riskDistance and stop not at entry
shouldMoveToBreakEvenAgain(position) ==
    Abs(position.currentPrice - position.openPrice) * 10
       >= Abs(position.openPrice - position.stopLoss) * 15

shouldMoveToBreakEven(position) ==
    /\ Abs(position.currentPrice - position.openPrice) * 10
          >= Abs(position.openPrice - position.stopLoss) * 15
    /\ position.stopLoss # position.openPrice

shouldTrailStop(position) == FALSE

\* |profit| >= dailyStartBalance * maxRiskPerTrade * 2 / 100 and losing
shouldEmergencyCloseAnySign(position) ==
    Abs(position.profit) * 1000 >= dailyStartBalance * riskParams.maxRiskPerTrade * 2

shouldEmergencyClose(position) ==
    /\ Abs(position.profit) * 1000 >= dailyStartBalance * riskParams.maxRiskPerTrade * 2
    /\ position.profit < 0

\* the requests applyPositionRiskManagement sends for one position
applyPositionRiskManagement(position) ==
    (IF shouldMoveToBreakEven(position)
     THEN <<[op |-> "modifyPosition", ticket |-> position.ticket,
             stopLoss |-> position.openPrice, takeProfit |-> position.takeProfit]>>
     ELSE <<>>)
    \o (IF shouldEmergencyClose(position)
        THEN <<[op |-> "closePosition", ticket |-> position.ticket]>>
        ELSE <<>>)

RECURSIVE monitorRequests(_)
monitorRequests(positions) ==
    IF positions = <<>> THEN <<>>
    ELSE applyPositionRiskManagement(Head(positions)) \o monitorRequests(Tail(positions))

\* the trace of applyPositionRiskManagement for one position when the
\* gateway fails the requests of the tickets in failed: modifyPosition and
\* closePosition catch the error, report it and return a failure that the
\* caller does not look at
RECURSIVE WithErrors(_, _)
WithErrors(requests, failed) ==
    IF requests = <<>> THEN <<>>
    ELSE <<Head(requests)>>
         \o (IF Head(requests).ticket \in failed
             THEN <<[op |-> "error", ticket |-> Head(requests).ticket]>>
             ELSE <<>>)
         \o WithErrors(Tail(requests), failed)

\* the loop of monitorPositions left at the first error
RECURSIVE monitorPositionsUntilError(_, _)
monitorPositionsUntilError(positions, failed) ==
    IF positions = <<>> THEN <<>>
    ELSE LET trace == WithErrors(applyPositionRiskManagement(Head(positions)), failed)
         IN  IF Head(positions).ticket \in failed /\ trace # <<>>
             THEN <<trace[1], trace[2]>>
             ELSE trace \o monitorPositionsUntilError(Tail(positions), failed)

\* monitorPositions on the fetched list: every position in turn, each in
\* its own try block
RECURSIVE monitorPositions(_, _)
monitorPositions(positions, failed) ==
    IF positions = <<>> THEN <<>>
    ELSE WithErrors(applyPositionRiskManagement(Head(positions)), failed)
         \o monitorPositions(Tail(positions), failed)

\* state after construction: the constructor's initializeDailyTracking finds
\* the connection down (getAccountInfo gives null) and assigns nothing
RiskManagerInit ==
    /\ riskParams = DefaultRiskParams
    /\ dailyStartBalance = 0
    /\ dailyPL = 0
    /\ isTradeBlocked = FALSE
    /\ resetPc = "idle"
    /\ validation = None
    /\ monitorLog = <<>>
    /\ monitored = None

\* the environment answers the calls validateTrade makes, one after another
ValidateTrade(signal, Accounts, PositionLists, Ticks, Infos) ==
    /\ \E a \in Accounts :
         LET r1 == [NoResp EXCEPT !.account = a] IN
         IF ~Asked(validateTrade(signal, r1), "getPositions")
         THEN /\ validation' = Some([signal |-> signal, resp |-> r1,
                                     result |-> validateTrade(signal, r1),
                                     argument |-> SignalArgument(signal, r1)])
              /\ isTradeBlocked' = BlockedAfterValidate(r1)
         ELSE \E p \in PositionLists :
           LET r2 == [r1 EXCEPT !.positions = p] IN
           IF ~Asked(validateTrade(signal, r2), "getMarketData")
           THEN /\ validation' = Some([signal |-> signal, resp |-> r2,
                                       result |-> validateTrade(signal, r2),
                                     argument |-> SignalArgument(signal, r2)])
                /\ isTradeBlocked' = BlockedAfterValidate(r2)
           ELSE \E t \in Ticks :
             LET r3 == [r2 EXCEPT !.tick = t] IN
             IF ~Asked(validateTrade(signal, r3), "getSymbolInfo")
             THEN /\ validation' = Some([signal |-> signal, resp |-> r3,
                                         result |-> validateTrade(signal, r3),
                                     argument |-> SignalArgument(signal, r3)])
                  /\ isTradeBlocked' = BlockedAfterValidate(r3)
             ELSE \E i \in Infos :
               LET r4 == [r3 EXCEPT !.info = i] IN
               /\ validation' = Some([signal |-> signal, resp |-> r4,
                                      result |-> validateTrade(signal, r4),
                                     argument |-> SignalArgument(signal, r4)])
               /\ isTradeBlocked' = BlockedAfterValidate(r4)
    /\ lastOp' = "validateTrade"
    /\ monitorLog' = <<>> /\ monitored' = None
    /\ UNCHANGED <<riskParams, dailyStartBalance, dailyPL, resetPc, learnVars>>

\* positions: the nullable getPositions response; iterating null throws and
\* the catch logs it
MonitorPositions(positions, failed) ==
    /\ monitorLog' = IF positions = None THEN <<>>
                     ELSE monitorPositions(positions[1], failed)
    /\ monitored' = positions
    /\ lastOp' = "monitorPositions"
    /\ validation' = None
    /\ UNCHANGED <<riskParams, dailyStartBalance, dailyPL, isTradeBlocked, resetPc,
                   learnVars>>

\* isTradeBlocked after updateDailyPL: the method assigns dailyPL alone
BlockedAfterDailyPLRecovering(account) ==
    IF account # None /\ account[1].balance >= dailyStartBalance THEN FALSE
    ELSE isTradeBlocked

BlockedAfterDailyPL(account) == isTradeBlocked

UpdateDailyPL(account) ==
    /\ dailyPL' = IF account = None THEN dailyPL
                  ELSE account[1].balance - dailyStartBalance
    /\ isTradeBlocked' = BlockedAfterDailyPL(account)
    /\ lastOp' = "updateDailyPL"
    /\ validation' = None
    /\ monitorLog' = <<>> /\ monitored' = None
    /\ UNCHANGED <<riskParams, dailyStartBalance, resetPc, learnVars>>

\* newParams: Partial<RiskParams>, a function on the fields it gives
UpdateRiskParams(newParams) ==
    /\ riskParams' = [f \in DOMAIN riskParams |->
                         IF f \in DOMAIN newParams THEN newParams[f] ELSE riskParams[f]]
    /\ lastOp' = "updateRiskParams"
    /\ validation' = None
    /\ monitorLog' = <<>> /\ monitored' = None
    /\ UNCHANGED <<dailyStartBalance, dailyPL, isTradeBlocked, resetPc, learnVars>>

\* resetDailyTracking: call, await initializeDailyTracking (which awaits
\* getAccountInfo), then clear the flag
ResetCall ==
    /\ resetPc = "idle"
    /\ resetPc' = "awaitAccount"
    /\ lastOp' = "resetDailyTracking.call"
    /\ validation' = None
    /\ monitorLog' = <<>> /\ monitored' = None
    /\ UNCHANGED <<riskParams, dailyStartBalance, dailyPL, isTradeBlocked, learnVars>>

ResetInitialize(account) ==
    /\ resetPc = "awaitAccount"
    /\ resetPc' = "clearFlag"
    /\ IF account = None
       THEN UNCHANGED <<dailyStartBalance, dailyPL>>
       ELSE /\ dailyStartBalance' = account[1].balance
            /\ dailyPL' = 0
    /\ lastOp' = "resetDailyTracking.initialize"
    /\ validation' = None
    /\ monitorLog' = <<>> /\ monitored' = None
    /\ UNCHANGED <<riskParams, isTradeBlocked, learnVars>>

ResetClear ==
    /\ resetPc = "clearFlag"
    /\ resetPc' = "idle"
    /\ isTradeBlocked' = FALSE
    /\ lastOp' = "resetDailyTracking"
    /\ validation' = None
    /\ monitorLog' = <<>> /\ monitored' = None
    /\ UNCHANGED <<riskParams, dailyStartBalance, dailyPL, learnVars>>

\* a StrategySignal of the SMC strategy for EURUSD, and an open Position
Sig(action, entry, stopLoss, takeProfit) ==
    [symbol |-> "EURUSD", action |-> action, confidence |-> 75, entry |-> entry,
     stopLoss |-> stopLoss, takeProfit |-> takeProfit, strategy |-> SMCName,
     timestamp |-> 0]

Pos(ticket, openPrice, currentPrice, stopLoss, profit) ==
    [ticket |-> ticket, symbol |-> "EURUSD", type |-> "BUY", volume |-> 10,
     openPrice |-> openPrice, currentPrice |-> currentPrice, profit |-> profit,
     stopLoss |-> stopLoss, takeProfit |-> openPrice + 2000]

(***************************************************************************)
(* MarketMindCore                                                          *)
(***************************************************************************)
\* initializeStrategies registers SMCStrategy under the key "SMC"
RegisteredStrategies == {"SMC"}
DefaultSymbols == <<"EURUSD", "GBPUSD", "USDCAD", "AUDUSD">>

\* Set.add / Set.delete on the entry list; a deleted entry stays as a dead
\* slot, so that an iterator in flight keeps its place
IsLive(entries, symbol) ==
    \E i \in 1..Len(entries) : entries[i].symbol = symbol /\ entries[i].live

SetAdd(entries, symbol) ==
    IF IsLive(entries, symbol) THEN entries
    ELSE Append(entries, [symbol |-> symbol, live |-> TRUE])

SetDelete(entries, symbol) ==
    [i \in 1..Len(entries) |->
        IF entries[i].symbol = symbol THEN [entries[i] EXCEPT !.live = FALSE]
        ELSE entries[i]]

RECURSIVE SetAddAll(_, _)
SetAddAll(entries, symbols) ==
    IF symbols = <<>> THEN entries
    ELSE SetAddAll(SetAdd(entries, Head(symbols)), Tail(symbols))

activeSymbols == {symbolEntries[i].symbol : i \in {j \in 1..Len(symbolEntries) :
                                                      symbolEntries[j].live}}

\* the symbols whose market data can produce signals; the analysis of any
\* other symbol finds none and changes nothing
TradedSymbols == {"EURUSD"}

\* the next entry, after position i, that the Set iterator yields and whose
\* symbol is in stepped (0: the iterator runs to its end).  The analysis of
\* a symbol outside stepped is taken together with the step before it.
NextLiveIn(entries, i, stepped) ==
    LET Yields(j) == entries[j].live /\ entries[j].symbol \in stepped IN
    IF \E j \in (i + 1)..Len(entries) : Yields(j)
    THEN CHOOSE j \in (i + 1)..Len(entries) :
             Yields(j) /\ \A k \in (i + 1)..(j - 1) : ~Yields(k)
    ELSE 0

NextLive(entries, i) == NextLiveIn(entries, i, TradedSymbols)

\* symbol.toUpperCase() on the inputs the model offers
toUpperCase(symbol) ==
    IF symbol = "eurusd" THEN "EURUSD"
    ELSE IF symbol = "usdjpy" THEN "USDJPY"
    ELSE symbol

\* Array.from over the strategies map's keys and over activeSymbols: the
\* entries in insertion order
StrategyKeys == <<"SMC">>

RECURSIVE ArrayFrom(_)
ArrayFrom(entries) ==
    IF entries = <<>> THEN <<>>
    ELSE (IF Head(entries).live THEN <<Head(entries).symbol>> ELSE <<>>)
         \o ArrayFrom(Tail(entries))

\* getStatus(), without learningProgress.lastUpdate (the time of the call)
getStatusAllRegistered ==
    [isRunning |-> isRunning,
     connectedToMT5 |-> isConnected,
     activeStrategies |-> StrategyKeys,
     monitoredSymbols |-> ArrayFrom(symbolEntries),
     totalSignals |-> Len(signalHistory),
     learningProgress |-> [totalTrades |-> 0, trainingCycles |-> 0,
                           accuracyImprovement |-> 0]]

getStatus ==
    [isRunning |-> isRunning,
     connectedToMT5 |-> isConnected,
     activeStrategies |-> SelectSeq(StrategyKeys, LAMBDA name : strategyActive[name]),
     monitoredSymbols |-> ArrayFrom(symbolEntries),
     totalSignals |-> Len(signalHistory),
     learningProgress |-> [totalTrades |-> 0, trainingCycles |-> 0,
                           accuracyImprovement |-> 0]]

\* activeSymbols after start() has seen connect() resolve to ok
SymbolsAfterStartAlways(ok) == SetAddAll(symbolEntries, DefaultSymbols)

SymbolsAfterStart(ok) ==
    IF ok THEN SetAddAll(symbolEntries, DefaultSymbols) ELSE symbolEntries

\* the placeMarketOrder request executeSignal sends for an accepted BUY/SELL
MarketOrderUnadjusted(signal, result) ==
    [op |-> "placeMarketOrder",
     symbol |-> result.adjustedSignal[1].symbol,
     volume |-> result.positionSize[1],
     type |-> IF result.adjustedSignal[1].action = "BUY" THEN 0 ELSE 1,
     stopLoss |-> result.adjustedSignal[1].stopLoss,
     takeProfit |-> signal.takeProfit]

MarketOrder(signal, result) ==
    [op |-> "placeMarketOrder",
     symbol |-> result.adjustedSignal[1].symbol,
     volume |-> result.positionSize[1],
     type |-> IF result.adjustedSignal[1].action = "BUY" THEN 0 ELSE 1,
     stopLoss |-> result.adjustedSignal[1].stopLoss,
     takeProfit |-> result.adjustedSignal[1].takeProfit]

\* where executeSignal goes after validateTrade returned result
AfterValidate(result) == IF result.isValid THEN "submit" ELSE "return"

(***************************************************************************)
(* SMCStrategy (strategies/smc.ts), BaseStrategy (strategies/base.ts)      *)
(* A bar is [open, high, low, close, volume] in price units; ohlc[i] of    *)
(* the source is Bar(ohlc, i).  A strength is the exact fraction num/den;  *)
(* the prices of a signal are in thousandths of a price unit, its          *)
(* confidence is the fraction num/den.                                     *)
(***************************************************************************)
Bar(ohlc, i) == ohlc[i + 1]

bodySize(bar) == Abs(bar.close - bar.open)
lowerWick(bar) == Min(bar.open, bar.close) - bar.low
upperWick(bar) == bar.high - Max(bar.open, bar.close)

\* the bars index+1 .. min(index+lookahead, length-1)
Lookahead(ohlc, index) == (index + 1)..(Min(index + 3 + 1, Len(ohlc)) - 1)

isBullishOrderBlock(ohlc, index) ==
    LET current == Bar(ohlc, index) IN
    /\ ~(lowerWick(current) * 2 < bodySize(current) \/ current.close <= current.open)
    /\ Cardinality({i \in Lookahead(ohlc, index) : Bar(ohlc, i).close > current.high}) >= 2

isBearishOrderBlock(ohlc, index) ==
    LET current == Bar(ohlc, index) IN
    /\ ~(upperWick(current) * 2 < bodySize(current) \/ current.close >= current.open)
    /\ Cardinality({i \in Lookahead(ohlc, index) : Bar(ohlc, i).close < current.low}) >= 2

\* (volume > 1000 ? 20 : 10) + wickSize / bodySize * 30
\*    + (length - index) / length * 20, at most 100; bodySize is positive
\* for a bar that passed isBullishOrderBlock or isBearishOrderBlock
calculateOrderBlockStrength(ohlc, index, type) ==
    LET current == Bar(ohlc, index)
        wickSize == IF type = "bullish" THEN lowerWick(current) ELSE upperWick(current)
        den == bodySize(current) * Len(ohlc)
        num == (IF current.volume > 1000 THEN 20 ELSE 10) * den
               + wickSize * 30 * Len(ohlc)
               + (Len(ohlc) - index) * 20 * bodySize(current)
    IN  IF num > 100 * den THEN [num |-> 100, den |-> 1] ELSE [num |-> num, den |-> den]

StrengthLess(a, b) == a.num * b.den < b.num * a.den

OrderBlock(ohlc, i, type) ==
    [type |-> type, high |-> Bar(ohlc, i).high, low |-> Bar(ohlc, i).low, index |-> i,
     strength |-> calculateOrderBlockStrength(ohlc, i, type), tested |-> FALSE]

\* the loop of updateOrderBlocks from i on
RECURSIVE FoundOrderBlocks(_, _)
FoundOrderBlocks(ohlc, i) ==
    IF i >= Len(ohlc) - 5 THEN <<>>
    ELSE (IF isBullishOrderBlock(ohlc, i) THEN <<OrderBlock(ohlc, i, "bullish")>> ELSE <<>>)
         \o (IF isBearishOrderBlock(ohlc, i) THEN <<OrderBlock(ohlc, i, "bearish")>>
             ELSE <<>>)
         \o FoundOrderBlocks(ohlc, i + 1)

\* sort((a, b) => b.strength - a.strength): descending, stable
RECURSIVE InsertByStrength(_, _)
InsertByStrength(sorted, block) ==
    IF sorted = <<>> THEN <<block>>
    ELSE IF StrengthLess(Head(sorted).strength, block.strength)
         THEN <<block>> \o sorted
         ELSE <<Head(sorted)>> \o InsertByStrength(Tail(sorted), block)

\* no sort: the blocks in the order the loop found them
KeepOrder(sorted, blocks) == sorted \o blocks

RECURSIVE SortByStrength(_, _)
SortByStrength(sorted, blocks) ==
    IF blocks = <<>> THEN sorted
    ELSE SortByStrength(InsertByStrength(sorted, Head(blocks)), Tail(blocks))

\* slice(0, 10)
Slice10(blocks) == SubSeq(blocks, 1, Min(10, Len(blocks)))

updateOrderBlocks(ohlc) == Slice10(SortByStrength(<<>>, FoundOrderBlocks(ohlc, 10)))

\* BaseStrategy.findPivotHighs / findPivotLows: entry p of the result is
\* for bar p - 1 + leftBars
findPivotHighs(highs, leftBars, rightBars) ==
    [p \in 1..Max(0, Len(highs) - leftBars - rightBars) |->
        LET i == p + leftBars IN
        IF /\ \A j \in (i - leftBars)..(i - 1) : highs[j] < highs[i]
           /\ \A j \in (i + 1)..(i + rightBars) : highs[j] < highs[i]
        THEN highs[i] ELSE 0]

findPivotLows(lows, leftBars, rightBars) ==
    [p \in 1..Max(0, Len(lows) - leftBars - rightBars) |->
        LET i == p + leftBars IN
        IF /\ \A j \in (i - leftBars)..(i - 1) : lows[j] > lows[i]
           /\ \A j \in (i + 1)..(i + rightBars) : lows[j] > lows[i]
        THEN lows[i] ELSE 0]

\* 25 for each later bar whose high or low is within 0.1 % of the level,
\* at most 100
calculateLiquidityStrength(ohlc, index, level) ==
    Min(25 * Cardinality({i \in (index + 1)..(Len(ohlc) - 1) :
                            \/ Abs(Bar(ohlc, i).high - level) * 1000 < level
                            \/ Abs(Bar(ohlc, i).low - level) * 1000 < level}),
        100)

\* the zones of one pivot array, in the order of the array
RECURSIVE ZonesFrom(_, _, _, _)
ZonesFrom(ohlc, pivots, type, p) ==
    IF p > Len(pivots) THEN <<>>
    ELSE (IF pivots[p] > 0
          THEN <<[type |-> type, level |-> pivots[p],
                  strength |-> calculateLiquidityStrength(ohlc, p - 1 + 3, pivots[p]),
                  touches |-> 1]>>
          ELSE <<>>)
         \o ZonesFrom(ohlc, pivots, type, p + 1)

updateLiquidityZones(ohlc) ==
    LET highs == [i \in 1..Len(ohlc) |-> ohlc[i].high]
        lows == [i \in 1..Len(ohlc) |-> ohlc[i].low]
    IN  ZonesFrom(ohlc, findPivotHighs(highs, 3, 3), "resistance", 1)
        \o ZonesFrom(ohlc, findPivotLows(lows, 3, 3), "support", 1)

\* the loop of updateFairValueGaps from i on
RECURSIVE FoundGaps(_, _)
FoundGaps(ohlc, i) ==
    IF i >= Len(ohlc) - 1 THEN <<>>
    ELSE LET prev == Bar(ohlc, i - 1)
             current == Bar(ohlc, i)
             next == Bar(ohlc, i + 1)
         IN  (IF prev.high < next.low /\ current.close > current.open
              THEN <<[type |-> "bullish", top |-> next.low, bottom |-> prev.high,
                      index |-> i, filled |-> FALSE]>>
              ELSE <<>>)
             \o (IF prev.low > next.high /\ current.close < current.open
                 THEN <<[type |-> "bearish", top |-> prev.low, bottom |-> next.high,
                         index |-> i, filled |-> FALSE]>>
                 ELSE <<>>)
             \o FoundGaps(ohlc, i + 1)

updateFairValueGaps(ohlc) == FoundGaps(ohlc, 1)

\* a candidate as the check* methods build it
Candidate(action, confidence, entry, stopLoss, takeProfit) ==
    [symbol |-> "", action |-> action, confidence |-> confidence, entry |-> entry,
     stopLoss |-> stopLoss, takeProfit |-> takeProfit, strategy |-> SMCName,
     timestamp |-> 0]

\* the first untested block the price is in, with a tolerance of 10 % of
\* the block's height
RECURSIVE checkOrderBlockEntry(_, _)
checkOrderBlockEntry(currentPrice, blocks) ==
    IF blocks = <<>> THEN None
    ELSE LET orderBlock == Head(blocks)
             height == orderBlock.high - orderBlock.low
             within == /\ currentPrice * 10 >= orderBlock.low * 10 - height
                       /\ currentPrice * 10 <= orderBlock.high * 10 + height
             confidence == [num |-> orderBlock.strength.num,
                            den |-> orderBlock.strength.den * 100]
         IN  IF orderBlock.tested THEN checkOrderBlockEntry(currentPrice, Tail(blocks))
             ELSE IF orderBlock.type = "bullish" /\ within
             THEN Some(Candidate("BUY", confidence, currentPrice * 1000,
                                 orderBlock.low * 1000 - height * 200,
                                 currentPrice * 1000
                                    + (currentPrice - orderBlock.low) * 2000))
             ELSE IF orderBlock.type = "bearish" /\ within
             THEN Some(Candidate("SELL", confidence, currentPrice * 1000,
                                 orderBlock.high * 1000 + height * 200,
                                 currentPrice * 1000
                                    - (orderBlock.high - currentPrice) * 2000))
             ELSE checkOrderBlockEntry(currentPrice, Tail(blocks))

\* the first zone the price has broken by more than 0.1 % with the last
\* bar closing back
RECURSIVE GrabReversal(_, _, _)
GrabReversal(currentPrice, lastBar, zones) ==
    IF zones = <<>> THEN None
    ELSE LET zone == Head(zones)
             confidence == [num |-> zone.strength, den |-> 100]
         IN  IF /\ zone.type = "resistance"
                /\ currentPrice * 1000 > zone.level * 1001
                /\ lastBar.close < lastBar.open
             THEN Some(Candidate("SELL", confidence, currentPrice * 1000,
                                 zone.level * 1002,
                                 currentPrice * 1000
                                    - (currentPrice - zone.level) * 1500))
             ELSE IF /\ zone.type = "support"
                     /\ currentPrice * 1000 < zone.level * 999
                     /\ lastBar.close > lastBar.open
             THEN Some(Candidate("BUY", confidence, currentPrice * 1000,
                                 zone.level * 998,
                                 currentPrice * 1000
                                    + (zone.level - currentPrice) * 1500))
             ELSE GrabReversal(currentPrice, lastBar, Tail(zones))

\* recent = ohlc.slice(-10) has fewer than 5 bars: no signal
checkLiquidityGrabReversal(currentPrice, ohlc, zones) ==
    IF Min(10, Len(ohlc)) < 5 THEN None
    ELSE GrabReversal(currentPrice, ohlc[Len(ohlc)], zones)

\* the first unfilled gap the price is in
RECURSIVE checkFairValueGapFill(_, _)
checkFairValueGapFill(currentPrice, gaps) ==
    IF gaps = <<>> THEN None
    ELSE LET fvg == Head(gaps)
             height == fvg.top - fvg.bottom
             within == currentPrice >= fvg.bottom /\ currentPrice <= fvg.top
             confidence == [num |-> 75, den |-> 100]
         IN  IF fvg.filled THEN checkFairValueGapFill(currentPrice, Tail(gaps))
             ELSE IF fvg.type = "bullish" /\ within
             THEN Some(Candidate("BUY", confidence, currentPrice * 1000,
                                 fvg.bottom * 1000 - height * 500,
                                 currentPrice * 1000 + height * 2000))
             ELSE IF fvg.type = "bearish" /\ within
             THEN Some(Candidate("SELL", confidence, currentPrice * 1000,
                                 fvg.top * 1000 + height * 500,
                                 currentPrice * 1000 - height * 2000))
             ELSE checkFairValueGapFill(currentPrice, Tail(gaps))

validateSignalConfidenceOnly(signal) ==
    /\ signal.symbol # ""
    /\ ~(signal.confidence.num * 2 < signal.confidence.den)

\* BaseStrategy.validateSignal: confidence >= 0.5 and reward : risk >= 1.5
\* (a risk of 0 gives Infinity or NaN, neither below 1.5)
validateSignal(signal) ==
    /\ signal.symbol # ""
    /\ ~(signal.confidence.num * 2 < signal.confidence.den)
    /\ ~(Abs(signal.takeProfit - signal.entry) * 2
           < Abs(signal.entry - signal.stopLoss) * 3)

\* if (!this.isActive || ohlc.length < 50) return null
analyzeSkipsBelow49(isActive, ohlc) == ~isActive \/ Len(ohlc) < 49

analyzeSkips(isActive, ohlc) == ~isActive \/ Len(ohlc) < 50

\* the category signals analyze looks at in turn, stamped with the symbol
SignalsInTurn(symbol, ohlc, currentPrice, blocks, zones, gaps) ==
    LET stamped(c) == IF c = None THEN None
                      ELSE Some([c[1] EXCEPT !.symbol = symbol, !.strategy = SMCName])
    IN  <<stamped(checkOrderBlockEntry(currentPrice, blocks)),
          stamped(checkLiquidityGrabReversal(currentPrice, ohlc, zones)),
          stamped(checkFairValueGapFill(currentPrice, gaps))>>

\* the first of them that is there and valid
RECURSIVE FirstValid(_)
FirstValid(signals) ==
    IF signals = <<>> THEN None
    ELSE IF Head(signals) # None /\ validateSignal(Head(signals)[1]) THEN Head(signals)
    ELSE FirstValid(Tail(signals))

\* analyze with an updateFairValueGaps that does not empty the set first
analyzeKeepingGaps(isActive, sets, symbol, ohlc, marketData) ==
    IF analyzeSkips(isActive, ohlc)
    THEN [sets |-> sets, result |-> None]
    ELSE LET blocks == updateOrderBlocks(ohlc)
             zones == updateLiquidityZones(ohlc)
             gaps == sets.fairValueGaps \o updateFairValueGaps(ohlc)
         IN  [sets |-> [orderBlocks |-> blocks, liquidityZones |-> zones,
                        fairValueGaps |-> gaps],
              result |-> FirstValid(SignalsInTurn(symbol, ohlc, marketData.bid,
                                                  blocks, zones, gaps))]

\* SMCStrategy.analyze: the sets it leaves and the signal it returns
analyze(isActive, sets, symbol, ohlc, marketData) ==
    IF analyzeSkips(isActive, ohlc)
    THEN [sets |-> sets, result |-> None]
    ELSE LET blocks == updateOrderBlocks(ohlc)
             zones == updateLiquidityZones(ohlc)
             gaps == updateFairValueGaps(ohlc)
         IN  [sets |-> [orderBlocks |-> blocks, liquidityZones |-> zones,
                        fairValueGaps |-> gaps],
              result |-> FirstValid(SignalsInTurn(symbol, ohlc, marketData.bid,
                                                  blocks, zones, gaps))]

ConnectionInit ==
    /\ now = 0
    /\ sentRequests = <<>>

SMCStrategyInit ==
    /\ orderBlocks = <<>>
    /\ liquidityZones = <<>>
    /\ fairValueGaps = <<>>
    /\ analyzeCall = None
    /\ totalTrades = [k \in RegisteredStrategies |-> 0]

CoreInit ==
    /\ SMCStrategyInit
    /\ ConnectionInit
    /\ isConnected = FALSE
    /\ brokerPositions = <<>>
    /\ isRunning = FALSE
    /\ analysisInterval = None
    /\ timers = {}
    /\ nextTimerId = 1
    /\ startsInFlight = 0
    /\ strategyActive = [k \in RegisteredStrategies |-> FALSE]
    /\ symbolEntries = <<>>
    /\ signalHistory = <<>>
    /\ cycles = EmptyBag
    /\ monitors = EmptyBag
    /\ analysed = None
    /\ startReturn = None
    /\ lastRequest = None

\* ---- bounds of the orchestrator model
MaxStarts == 1           \* start() calls that connect successfully
MaxCycles == 1           \* analysis callbacks in flight at once
MaxHistory == 1          \* signals offered for execution
MaxRemovals == 1         \* dead slots in the symbol entry list

StandardInfo == [volumeMin |-> 1, volumeMax |-> 500, volumeStep |-> 1]
CoreSignals == {Sig("BUY", 10000, 9500, 10750), Sig("CLOSE", 10000, 9500, 10750)}
Tickets == {100001}
CoreAccount == [balance |-> 10000, equity |-> 10000]
SymbolInputs == {"eurusd"}
CoreParamUpdates == {MapSet(<<>>, "minRiskReward", 20)}

NoTransients ==
    /\ validation' = None /\ monitorLog' = <<>> /\ monitored' = None
    /\ UNCHANGED <<smcVars, wireVars>>

\* -- start(): call, then the connect() promise resolves
StartCall ==
    /\ startsInFlight = 0
    /\ startsInFlight' = 1
    /\ startReturn' = None
    /\ lastRequest' = None
    /\ lastOp' = "start.call"
    /\ analysed' = None /\ UNCHANGED monitors
    /\ NoTransients
    /\ UNCHANGED <<isConnected, brokerPositions, isRunning, analysisInterval, timers,
                   nextTimerId, strategyActive, symbolEntries, signalHistory, cycles>>
    /\ UNCHANGED <<learnVars, riskParams, dailyStartBalance, dailyPL, isTradeBlocked,
                   resetPc>>

\* outcome of connect(): "open" (onopen, resolves true), "error" (onerror,
\* resolves false) or "throw" (the constructor throws, the catch returns false)
ConnectOutcomes == {"open", "error", "throw"}

StartResumeWithin(outcome, maxStarts) ==
    LET ok == outcome = "open" IN
    /\ startsInFlight > 0
    /\ ok => nextTimerId + 1 <= 2 * maxStarts
    /\ startsInFlight' = startsInFlight - 1
    /\ isConnected' = IF outcome = "throw" THEN isConnected ELSE ok
    /\ symbolEntries' = SymbolsAfterStart(ok)
    /\ IF ok
       THEN /\ strategyActive' = [k \in RegisteredStrategies |-> TRUE]
            /\ analysisInterval' = Some(nextTimerId)
            /\ timers' = timers \cup {[id |-> nextTimerId, kind |-> "analysis"],
                                      [id |-> nextTimerId + 1, kind |-> "monitor"]}
            /\ nextTimerId' = nextTimerId + 2
            /\ isRunning' = TRUE
       ELSE UNCHANGED <<strategyActive, analysisInterval, timers, nextTimerId, isRunning>>
    /\ startReturn' = Some(ok)
    /\ lastRequest' = None
    /\ lastOp' = "start"
    /\ analysed' = None /\ UNCHANGED monitors
    /\ NoTransients
    /\ UNCHANGED <<brokerPositions, signalHistory, cycles>>
    /\ UNCHANGED <<learnVars, riskParams, dailyStartBalance, dailyPL, isTradeBlocked,
                   resetPc>>

StartResume(outcome) == StartResumeWithin(outcome, MaxStarts)

Stop ==
    /\ isRunning' = FALSE
    /\ IF analysisInterval # None
       THEN /\ timers' = {t \in timers : t.id # analysisInterval[1]}
            /\ analysisInterval' = None
       ELSE UNCHANGED <<timers, analysisInterval>>
    /\ strategyActive' = [k \in RegisteredStrategies |-> FALSE]
    /\ isConnected' = FALSE
    /\ startReturn' = None
    /\ lastRequest' = None
    /\ lastOp' = "stop"
    /\ analysed' = None /\ UNCHANGED monitors
    /\ NoTransients
    /\ UNCHANGED <<brokerPositions, nextTimerId, startsInFlight, symbolEntries,
                   signalHistory, cycles>>
    /\ UNCHANGED <<learnVars, riskParams, dailyStartBalance, dailyPL, isTradeBlocked,
                   resetPc>>

CoreFrame ==
    /\ startReturn' = None
    /\ NoTransients
    /\ UNCHANGED <<learnVars, riskParams, dailyStartBalance, dailyPL, isTradeBlocked,
                   resetPc>>

AddSymbol(symbol) ==
    /\ symbolEntries' = SetAdd(symbolEntries, toUpperCase(symbol))
    /\ lastRequest' = None
    /\ lastOp' = "addSymbol"
    /\ analysed' = None /\ UNCHANGED monitors
    /\ CoreFrame
    /\ UNCHANGED <<isConnected, brokerPositions, isRunning, analysisInterval, timers,
                   nextTimerId, startsInFlight, strategyActive, signalHistory, cycles>>

RemoveSymbol(symbol) ==
    /\ Cardinality({i \in 1..Len(symbolEntries) : ~symbolEntries[i].live}) < MaxRemovals
    /\ symbolEntries' = SetDelete(symbolEntries, toUpperCase(symbol))
    /\ lastRequest' = None
    /\ lastOp' = "removeSymbol"
    /\ analysed' = None /\ UNCHANGED monitors
    /\ CoreFrame
    /\ UNCHANGED <<isConnected, brokerPositions, isRunning, analysisInterval, timers,
                   nextTimerId, startsInFlight, strategyActive, signalHistory, cycles>>

\* -- the analysis timer fires: the callback returns at once when stopped,
\* else starts iterating activeSymbols
AnalysisTickWithin(t, maxCycles) ==
    /\ t \in timers /\ t.kind = "analysis"
    /\ isRunning => BagCardinality(cycles) < maxCycles
    /\ cycles' = IF isRunning
                 THEN cycles (+) SetToBag({[iter |-> 0, pc |-> "next", signal |-> None,
                                            result |-> None]})
                 ELSE cycles
    /\ lastRequest' = None
    /\ lastOp' = "analysisTick"
    /\ analysed' = None /\ UNCHANGED monitors
    /\ CoreFrame
    /\ UNCHANGED <<isConnected, brokerPositions, isRunning, analysisInterval, timers,
                   nextTimerId, startsInFlight, strategyActive, symbolEntries,
                   signalHistory>>

AnalysisTick(t) == AnalysisTickWithin(t, MaxCycles)

RemoveAt(seq, i) == SubSeq(seq, 1, i - 1) \o SubSeq(seq, i + 1, Len(seq))

\* the tasks in flight with task c finished / continued as d
Finished(c) == cycles (-) SetToBag({c})
Continued(c, d) == (cycles (-) SetToBag({c})) (+) SetToBag({d})

\* the signals analyzeSymbol may pass to executeSignal for symbol: none
\* without market data or an active strategy
AnalysisSignalsWithin(symbol, maxHistory) ==
    IF /\ isConnected
       /\ \E k \in RegisteredStrategies : strategyActive[k]
       /\ symbol \in TradedSymbols
       /\ Len(signalHistory)
             + Cardinality({c \in BagToSet(cycles) : c.signal # None}) < maxHistory
    THEN CoreSignals
    ELSE {}

AnalysisSignals(symbol) == AnalysisSignalsWithin(symbol, MaxHistory)

\* analyzeSymbol and SMCStrategy.analyze ask for this many bars
MinBars == 50

\* the gateway's answers to analyzeSymbol.  getMarketData: null when
\* disconnected or on timeout
Tick == [bid |-> 10000, spread |-> 10]
MarketDataResponses == IF isConnected THEN {Some(Tick), None} ELSE {None}

\* getOHLC, by the number of bars: [] when disconnected, else the bars or
\* null on timeout (the || [] is applied to the promise, not to its value)
BarCounts == {0, 49, 50, 100}
OHLCResponses == IF isConnected THEN {Some(n) : n \in BarCounts} \cup {None} ELSE {Some(0)}

\* how analyzeSymbol ends on these answers; candidate: the nullable signal
\* of the active strategies.  ohlc.length of null throws into the catch.
analysisEnd(marketData, ohlc, candidate) ==
    IF marketData = None THEN "noMarketData"
    ELSE IF ohlc = None THEN "error"
    ELSE IF ohlc[1] < MinBars THEN "insufficientBars"
    ELSE IF candidate = None THEN "noSignal"
    ELSE "signal"

\* the callback's task after analyzeSymbol has ended without a signal for
\* entry j: the return, or the catch inside analyzeSymbol, gives control back
\* to the for-of loop
SkipSymbolAbortOnError(c, j, end) ==
    IF end = "error" THEN [c EXCEPT !.iter = Len(symbolEntries)] ELSE [c EXCEPT !.iter = j]

SkipSymbol(c, j, end) == [c EXCEPT !.iter = j]

\* -- the for-of loop takes the next symbol and analyzeSymbol runs up to the
\* call of executeSignal
AnalyzeSymbolWithin(c, stepped, marketData, ohlc, candidate, maxHistory) ==
    /\ BagIn(c, cycles)
    /\ c.pc = "next"
    /\ LET j == NextLiveIn(symbolEntries, c.iter, stepped) IN
       IF j = 0
       THEN /\ candidate = None
            /\ cycles' = Finished(c)
            /\ analysed' = None
            /\ UNCHANGED <<candidates, selected, scores>>
       ELSE /\ marketData \in MarketDataResponses
            /\ ohlc \in OHLCResponses
            /\ candidate # None =>
                  candidate[1] \in AnalysisSignalsWithin(symbolEntries[j].symbol,
                                                         maxHistory)
            /\ analysed' = Some([symbol |-> symbolEntries[j].symbol,
                                 end |-> analysisEnd(marketData, ohlc, candidate)])
            /\ IF analysisEnd(marketData, ohlc, candidate) # "signal"
               THEN /\ cycles' = Continued(c, SkipSymbol(c, j,
                                                analysisEnd(marketData, ohlc, candidate)))
                    /\ UNCHANGED <<candidates, selected, scores>>
               ELSE /\ candidates' = candidate
                    /\ scores' = <<>>
                    \* one candidate: no score is computed
                    /\ selected' = selectBestSignal(candidate, symbolEntries[j].symbol,
                                                    <<>>)
                    /\ cycles' = Continued(c, [c EXCEPT
                                     !.iter = j,
                                     !.pc = IF selected' = None THEN "next" ELSE "validate",
                                     !.signal = selected'])
    /\ lastRequest' = None
    /\ startReturn' = None
    /\ lastOp' = "analyzeSymbol"
    /\ UNCHANGED monitors
    /\ NoTransients
    /\ UNCHANGED <<strategyWeights, symbolPerformance, lastTrade>>
    /\ UNCHANGED <<riskParams, dailyStartBalance, dailyPL, isTradeBlocked, resetPc>>
    /\ UNCHANGED <<isConnected, brokerPositions, isRunning, analysisInterval, timers,
                   nextTimerId, startsInFlight, strategyActive, symbolEntries,
                   signalHistory>>

AnalyzeSymbol(c, stepped, marketData, ohlc, candidate) ==
    AnalyzeSymbolWithin(c, stepped, marketData, ohlc, candidate, MaxHistory)

\* the same with the feed answering in full while the connection is up, the
\* analyses of the symbols that give no signal taken together; outcome:
\* the nullable signal of the strategies
CycleAnalyzeWithin(c, outcome, maxHistory) ==
    AnalyzeSymbolWithin(c, TradedSymbols,
                        IF isConnected THEN Some(Tick) ELSE None,
                        IF isConnected THEN Some(100) ELSE Some(0),
                        outcome, maxHistory)

CycleAnalyze(c, outcome) == CycleAnalyzeWithin(c, outcome, MaxHistory)

\* the gateway's answers.  getPositions: [] when disconnected, else the positions or null on timeout
PositionResponses(positions) ==
    IF isConnected THEN {Some(positions), None} ELSE {Some(<<>>)}

\* getAccountInfo: null when disconnected or on timeout
AccountResponses == IF isConnected THEN {Some(CoreAccount), None} ELSE {None}

\* -- executeSignal, first half: await riskManager.validateTrade(signal)
CycleValidate(c) ==
    /\ BagIn(c, cycles)
    /\ c.pc = "validate"
    /\ ValidateTrade(c.signal[1],
                     AccountResponses,
                     PositionResponses(brokerPositions),
                     IF isConnected
                     THEN {Some([symbol |-> "EURUSD", spread |-> sp]) : sp \in {10, 31}}
                     ELSE {None},
                     IF isConnected THEN {Some(StandardInfo)} ELSE {None})
    /\ cycles' = IF AfterValidate(validation'[1].result) = "submit"
                 THEN Continued(c, [c EXCEPT !.pc = "submit",
                                             !.result = Some(validation'[1].result)])
                 ELSE Continued(c, [c EXCEPT !.pc = "next", !.signal = None])
    /\ lastRequest' = None
    /\ startReturn' = None
    /\ analysed' = None
    /\ UNCHANGED <<monitors, smcVars, wireVars>>
    /\ UNCHANGED <<isConnected, brokerPositions, isRunning, analysisInterval, timers,
                   nextTimerId, startsInFlight, strategyActive, symbolEntries,
                   signalHistory>>

\* the position a filled order opens at the broker
OpenedPosition(order, ticket, entry) ==
    [ticket |-> ticket, symbol |-> order.symbol,
     type |-> IF order.type = 0 THEN "BUY" ELSE "SELL", volume |-> order.volume,
     openPrice |-> entry, currentPrice |-> entry, profit |-> 0,
     stopLoss |-> order.stopLoss, takeProfit |-> order.takeProfit]

\* signalHistory after the order's result arrived
RecordEveryResult(history, adjustedSignal, success, ticket) ==
    Append(history, [signal |-> adjustedSignal, ticket |-> ticket, outcome |-> None])

RecordExecution(history, adjustedSignal, success, ticket) ==
    IF success
    THEN Append(history, [signal |-> adjustedSignal, ticket |-> ticket, outcome |-> None])
    ELSE history

\* -- executeSignal, second half: the order (or the close-all) goes out and
\* a successful order is recorded.  sendOrderRequest fails when the
\* connection is down and otherwise succeeds with a drawn ticket.
CycleSubmit(c, ticket) ==
    /\ BagIn(c, cycles)
    /\ c.pc = "submit"
    /\ LET signal == c.signal[1]
           result == c.result[1]
           adjustedSignal == result.adjustedSignal[1]
       IN  IF adjustedSignal.action \in {"BUY", "SELL"}
           THEN /\ lastRequest' = Some(MarketOrder(signal, result))
                /\ signalHistory' = RecordExecution(signalHistory, adjustedSignal,
                                                     isConnected, ticket)
                /\ brokerPositions' =
                      IF isConnected
                      THEN Append(brokerPositions,
                                  OpenedPosition(MarketOrder(signal, result), ticket,
                                                 adjustedSignal.entry))
                      ELSE brokerPositions
           ELSE /\ lastRequest' = Some([op |-> "closeAllPositions",
                                        symbol |-> adjustedSignal.symbol])
                /\ \E p \in PositionResponses(brokerPositions) :
                      brokerPositions' =
                         IF p = None \/ ~isConnected THEN brokerPositions
                         ELSE SelectSeq(brokerPositions,
                                        LAMBDA q : q.symbol # adjustedSignal.symbol)
                /\ UNCHANGED signalHistory
    /\ cycles' = Continued(c, [c EXCEPT !.pc = "next", !.signal = None,
                                        !.result = None])
    /\ lastOp' = "executeSignal.submit"
    /\ analysed' = None /\ UNCHANGED monitors
    /\ CoreFrame
    /\ UNCHANGED <<isConnected, isRunning, analysisInterval, timers, nextTimerId,
                   startsInFlight, strategyActive, symbolEntries>>

\* ---- outcome feedback, as driven by updateLearningData
TradeStrategies == {SMCName}
TradeSymbols == {"EURUSD"}
Outcomes == {"win", "loss"}

UpdateFromTrade(h) ==
    /\ updateFromTrade(h)
    /\ lastTrade' = Some(h)
    /\ lastOp' = "updateFromTrade"
    /\ UNCHANGED <<candidates, selected, scores, riskVars>>

LearnNext ==
    \E s \in TradeStrategies, y \in TradeSymbols,
       o \in {None} \cup {Some([result |-> r]) : r \in Outcomes} :
        UpdateFromTrade([signal |-> [strategy |-> s, symbol |-> y], outcome |-> o])

LearnInit == LearningEngineInit /\ RiskManagerInit /\ CoreInit /\ lastOp = "init"

SpecLearn == LearnInit /\ [][LearnNext /\ UNCHANGED <<coreVars, smcVars, wireVars>>]_vars

\* the name each registered strategy gives itself and stamps on its signals
\* (smc.ts 13-15: super('SMC (Smart Money)', ...))
getName == [k \in RegisteredStrategies |-> SMCName]

\* getStrategyPerformances(): the performance record of each registry key
getStrategyPerformances ==
    [k \in RegisteredStrategies |-> [totalTrades |-> totalTrades[k]]]

\* const strategy = this.strategies.get(history.signal.strategy);
\* if (strategy) strategy.updatePerformance(...): the totalTrades counters
\* after the entry got its outcome.  The registry is keyed by the names
\* given in initializeStrategies.
TradesAfter(counts, history) ==
    IF history.signal.strategy \in RegisteredStrategies
    THEN [counts EXCEPT ![history.signal.strategy] = @ + 1]
    ELSE counts

\* the same for every entry that is pending in before and resolved in after
RECURSIVE TradesAfterAll(_, _, _, _)
TradesAfterAll(counts, before, after, i) ==
    IF i > Len(before) THEN counts
    ELSE TradesAfterAll(IF before[i].outcome = None /\ after[i].outcome # None
                        THEN TradesAfter(counts, after[i])
                        ELSE counts,
                        before, after, i + 1)

\* -- the monitoring timer fires: monitorPositions, updateDailyPL and
\* updateLearningData in turn, each with its own gateway responses

\* the broker's positions after the requests of monitorPositions
RECURSIVE ApplyRequests(_, _)
ApplyRequests(positions, requests) ==
    IF requests = <<>> THEN positions
    ELSE LET r == Head(requests) IN
         ApplyRequests(
            IF r.op = "closePosition"
            THEN SelectSeq(positions, LAMBDA q : q.ticket # r.ticket)
            ELSE [i \in 1..Len(positions) |->
                     IF positions[i].ticket = r.ticket
                     THEN [positions[i] EXCEPT !.stopLoss = r.stopLoss]
                     ELSE positions[i]],
            Tail(requests))

\* updateLearningData's loop from entry i on; results[i]: what Math.random
\* decides for entry i should it be found closed
\* history.outcome === null && !openTickets.has(history.ticket)
IsClosedAnyOutcome(history, openTickets) == history.ticket \notin openTickets

IsClosedPending(history, openTickets) ==
    history.outcome = None /\ history.ticket \notin openTickets

RECURSIVE ResolveClosed(_, _, _, _, _)
ResolveClosed(history, w, i, openTickets, results) ==
    IF i > Len(history) THEN [history |-> history, weights |-> w]
    ELSE IF IsClosedPending(history[i], openTickets)
         THEN LET resolved == [history[i] EXCEPT
                                  !.outcome = Some([result |-> results[i]])]
              IN  ResolveClosed([history EXCEPT ![i] = resolved],
                                ApplyTrade(w, resolved), i + 1, openTickets, results)
         ELSE ResolveClosed(history, w, i + 1, openTickets, results)

MonitorTick(t) ==
    /\ t \in timers /\ t.kind = "monitor"
    /\ IF ~isRunning
       THEN /\ monitorLog' = <<>> /\ monitored' = None
            /\ UNCHANGED <<brokerPositions, dailyPL, isTradeBlocked, signalHistory,
                           strategyWeights, symbolPerformance>>
       ELSE \E p1 \in PositionResponses(brokerPositions), a \in AccountResponses :
            /\ monitorLog' = IF p1 = None THEN <<>> ELSE monitorRequests(p1[1])
            /\ monitored' = p1
            /\ brokerPositions' = IF isConnected
                                  THEN ApplyRequests(brokerPositions, monitorLog')
                                  ELSE brokerPositions
            /\ dailyPL' = IF a = None THEN dailyPL
                          ELSE a[1].balance - dailyStartBalance
            /\ isTradeBlocked' = BlockedAfterDailyPL(a)
            /\ \E p2 \in PositionResponses(brokerPositions'),
                  results \in [1..Len(signalHistory) -> Outcomes] :
                 IF p2 = None
                 THEN UNCHANGED <<signalHistory, strategyWeights, symbolPerformance>>
                 ELSE LET openTickets == {p2[1][i].ticket : i \in 1..Len(p2[1])}
                          after == ResolveClosed(signalHistory, Weights, 1, openTickets,
                                                 results)
                      IN  /\ signalHistory' = after.history
                          /\ strategyWeights' = after.weights.strategyWeights
                          /\ symbolPerformance' = after.weights.symbolPerformance
    /\ totalTrades' = TradesAfterAll(totalTrades, signalHistory, signalHistory', 1)
    /\ validation' = None
    /\ startReturn' = None
    /\ lastRequest' = None
    /\ lastOp' = "monitorTick"
    /\ analysed' = None
    /\ UNCHANGED <<monitors, orderBlocks, liquidityZones, fairValueGaps, analyzeCall,
                   wireVars>>
    /\ UNCHANGED <<lastTrade, candidates, selected, scores>>
    /\ UNCHANGED <<riskParams, dailyStartBalance, resetPc>>
    /\ UNCHANGED <<isConnected, isRunning, analysisInterval, timers, nextTimerId,
                   startsInFlight, strategyActive, symbolEntries, cycles>>

\* -- the monitoring callback await by await: callbacks of several ticks
\* are in flight together when one outlasts the period
MaxMonitors == 2         \* monitoring callbacks in flight at once

MonitorTask == [pc |-> "monitor", i |-> 0, openTickets |-> {}, obtained |-> FALSE]

MonitorContinued(m, d) == (monitors (-) SetToBag({m})) (+) SetToBag({d})
MonitorFinished(m) == monitors (-) SetToBag({m})

MonitorFrame ==
    /\ validation' = None
    /\ startReturn' = None
    /\ lastRequest' = None
    /\ analysed' = None
    /\ UNCHANGED <<orderBlocks, liquidityZones, fairValueGaps, analyzeCall, wireVars>>
    /\ UNCHANGED <<lastTrade, candidates, selected, scores>>
    /\ UNCHANGED <<riskParams, dailyStartBalance, resetPc>>
    /\ UNCHANGED <<isConnected, isRunning, analysisInterval, timers, nextTimerId,
                   startsInFlight, strategyActive, symbolEntries, cycles>>

\* the timer fires: if (!this.isRunning) return
MonitorBegin(t) ==
    /\ t \in timers /\ t.kind = "monitor"
    /\ isRunning => BagCardinality(monitors) < MaxMonitors
    /\ monitors' = IF isRunning THEN monitors (+) SetToBag({MonitorTask}) ELSE monitors
    /\ monitorLog' = <<>> /\ monitored' = None
    /\ lastOp' = "monitorBegin"
    /\ MonitorFrame
    /\ UNCHANGED <<brokerPositions, dailyPL, isTradeBlocked, signalHistory,
                   strategyWeights, symbolPerformance, totalTrades>>

\* await riskManager.monitorPositions(); delivered: the requests reached
\* the gateway and were executed
MonitorRisk(m, positions, delivered) ==
    /\ BagIn(m, monitors) /\ m.pc = "monitor"
    /\ positions \in PositionResponses(brokerPositions)
    /\ monitorLog' = IF positions = None THEN <<>> ELSE monitorRequests(positions[1])
    /\ monitored' = positions
    /\ delivered => isConnected /\ monitorLog' # <<>>
    /\ brokerPositions' = IF delivered THEN ApplyRequests(brokerPositions, monitorLog')
                           ELSE brokerPositions
    /\ monitors' = MonitorContinued(m, [m EXCEPT !.pc = "dailyPL"])
    /\ lastOp' = "monitorPositions"
    /\ MonitorFrame
    /\ UNCHANGED <<dailyPL, isTradeBlocked, signalHistory, strategyWeights,
                   symbolPerformance, totalTrades>>

\* await riskManager.updateDailyPL()
MonitorDailyPL(m, account) ==
    /\ BagIn(m, monitors) /\ m.pc = "dailyPL"
    /\ account \in AccountResponses
    /\ dailyPL' = IF account = None THEN dailyPL
                  ELSE account[1].balance - dailyStartBalance
    /\ isTradeBlocked' = BlockedAfterDailyPL(account)
    /\ monitors' = MonitorContinued(m, [m EXCEPT !.pc = "learn"])
    /\ monitorLog' = <<>> /\ monitored' = None
    /\ lastOp' = "updateDailyPL"
    /\ MonitorFrame
    /\ UNCHANGED <<brokerPositions, signalHistory, strategyWeights, symbolPerformance,
                   totalTrades>>

\* updateLearningData: await mt5Connection.getPositions(); null.map throws
\* into the catch
MonitorFetch(m, positions) ==
    /\ BagIn(m, monitors) /\ m.pc = "learn"
    /\ positions \in PositionResponses(brokerPositions)
    /\ monitors' =
          IF positions = None THEN MonitorFinished(m)
          ELSE MonitorContinued(m,
                  [m EXCEPT !.pc = "resolve",
                            !.openTickets = {positions[1][k].ticket :
                                                k \in 1..Len(positions[1])},
                            !.obtained = isConnected])
    /\ monitorLog' = <<>> /\ monitored' = None
    /\ lastOp' = "updateLearningData.fetch"
    /\ MonitorFrame
    /\ UNCHANGED <<brokerPositions, dailyPL, isTradeBlocked, signalHistory,
                   strategyWeights, symbolPerformance, totalTrades>>

\* the same without the test of history.outcome === null
RECURSIVE NextClosedAgain(_, _, _)
NextClosedAgain(history, i, openTickets) ==
    IF i >= Len(history) THEN 0
    ELSE IF history[i + 1].ticket \notin openTickets THEN i + 1
    ELSE NextClosedAgain(history, i + 1, openTickets)

\* the first entry after i the loop finds closed and pending, 0 if none
RECURSIVE NextClosed(_, _, _)
NextClosed(history, i, openTickets) ==
    IF i >= Len(history) THEN 0
    ELSE IF IsClosedPending(history[i + 1], openTickets) THEN i + 1
    ELSE NextClosed(history, i + 1, openTickets)

\* updateLearningData's loop up to its next await: the entries that are
\* open or resolved are passed over, the next closed one gets its outcome
\* and updateFromTrade runs to its end (it awaits nothing); without such an
\* entry the loop and the callback end
\* outcome: what the two Math.random() calls give should an entry be found;
\* idle: the draw under which the pass that finds none is taken
MonitorResolveWith(m, outcome, idle) ==
    /\ BagIn(m, monitors) /\ m.pc = "resolve"
    /\ LET j == NextClosed(signalHistory, m.i, m.openTickets) IN
       IF j = 0
       THEN /\ idle
            /\ monitors' = MonitorFinished(m)
            /\ UNCHANGED <<signalHistory, strategyWeights, symbolPerformance,
                           totalTrades>>
       ELSE LET resolved == [signalHistory[j] EXCEPT !.outcome = Some(outcome)]
            IN  /\ signalHistory' = [signalHistory EXCEPT ![j] = resolved]
                /\ totalTrades' = TradesAfter(totalTrades, resolved)
                /\ updateFromTrade(resolved)
                /\ monitors' = MonitorContinued(m, [m EXCEPT !.i = j])
    /\ monitorLog' = <<>> /\ monitored' = None
    /\ lastOp' = "updateLearningData.resolve"
    /\ MonitorFrame
    /\ UNCHANGED <<brokerPositions, dailyPL, isTradeBlocked>>

\* the outcome by its result alone
MonitorResolve(m, result) == MonitorResolveWith(m, [result |-> result], result = "loss")

\* const outcome = Math.random() > 0.5 ? 'win' : 'loss';
\* const profit = Math.random() * 200 - 100;
\* r1, r2: the two random numbers in tenths
DrawOutcome(r1, r2) ==
    [result |-> IF r1 > 5 THEN "win" ELSE "loss", profit |-> r2 * 20 - 100]

\* the outcome with the profit drawn beside the result
MonitorResolveDrawn(m, r1, r2) ==
    MonitorResolveWith(m, DrawOutcome(r1, r2), r1 = 1 /\ r2 = 1)

\* -- the environment: the market moves, the broker closes a position (stop
\* or target hit) and the socket closes (ws.onclose)
MonitorPrices == {11080, 10990}

PriceMoves(i, price) ==
    /\ i \in 1..Len(brokerPositions)
    /\ brokerPositions[i].currentPrice # price
    /\ brokerPositions' =
          [brokerPositions EXCEPT
             ![i].currentPrice = price,
             ![i].profit = IF brokerPositions[i].type = "BUY"
                           THEN price - brokerPositions[i].openPrice
                           ELSE brokerPositions[i].openPrice - price]
    /\ lastRequest' = None
    /\ lastOp' = "priceMoves"
    /\ analysed' = None /\ UNCHANGED monitors
    /\ CoreFrame
    /\ UNCHANGED <<isConnected, isRunning, analysisInterval, timers, nextTimerId,
                   startsInFlight, strategyActive, symbolEntries, signalHistory, cycles>>

BrokerCloses(i) ==
    /\ i \in 1..Len(brokerPositions)
    /\ brokerPositions' = RemoveAt(brokerPositions, i)
    /\ lastRequest' = None
    /\ lastOp' = "brokerCloses"
    /\ analysed' = None /\ UNCHANGED monitors
    /\ CoreFrame
    /\ UNCHANGED <<isConnected, isRunning, analysisInterval, timers, nextTimerId,
                   startsInFlight, strategyActive, symbolEntries, signalHistory, cycles>>

ConnectionClosed ==
    /\ isConnected
    /\ isConnected' = FALSE
    /\ lastRequest' = None
    /\ lastOp' = "onclose"
    /\ analysed' = None /\ UNCHANGED monitors
    /\ CoreFrame
    /\ UNCHANGED <<brokerPositions, isRunning, analysisInterval, timers, nextTimerId,
                   startsInFlight, strategyActive, symbolEntries, signalHistory, cycles>>

CoreUpdateRiskParams(newParams) ==
    /\ UpdateRiskParams(newParams)
    /\ startReturn' = None
    /\ lastRequest' = None
    /\ analysed' = None
    /\ UNCHANGED <<monitors, smcVars, wireVars>>
    /\ UNCHANGED <<isConnected, brokerPositions, isRunning, analysisInterval, timers,
                   nextTimerId, startsInFlight, strategyActive, symbolEntries,
                   signalHistory, cycles>>

Init == LearningEngineInit /\ RiskManagerInit /\ CoreInit /\ lastOp = "init"

\* the orchestrator trading over its default symbols
Next ==
    \/ StartCall
    \/ \E outcome \in ConnectOutcomes : StartResume(outcome)
    \/ Stop
    \/ \E t \in timers : AnalysisTick(t)
    \/ \E c \in BagToSet(cycles), s \in CoreSignals : CycleAnalyze(c, Some(s))
    \/ \E c \in BagToSet(cycles) : CycleAnalyze(c, None)
    \/ \E c \in BagToSet(cycles) : CycleValidate(c)
    \/ \E c \in BagToSet(cycles), ticket \in Tickets : CycleSubmit(c, ticket)
    \/ \E t \in timers : MonitorTick(t)
    \/ \E i \in 1..Len(brokerPositions) : BrokerCloses(i)
    \/ \E newParams \in CoreParamUpdates : CoreUpdateRiskParams(newParams)

Spec == Init /\ [][Next]_vars

\* the orchestrator's life cycle and symbol list, the markets giving no signal
LifecycleNext ==
    \/ StartCall
    \/ \E outcome \in ConnectOutcomes : StartResume(outcome)
    \/ Stop
    \/ \E symbol \in SymbolInputs : AddSymbol(symbol)
    \/ \E symbol \in SymbolInputs : RemoveSymbol(symbol)
    \/ \E t \in timers : AnalysisTick(t)
    \/ \E c \in BagToSet(cycles) : CycleAnalyze(c, None)
    \/ \E t \in timers : MonitorTick(t)
    \/ ConnectionClosed

SpecLifecycle == Init /\ [][LifecycleNext]_vars

\* the life cycle, the symbol list and the execution of BUY signals, as
\* getStatus() can observe them
StatusNext ==
    \/ StartCall
    \/ \E outcome \in ConnectOutcomes : StartResume(outcome)
    \/ Stop
    \/ \E symbol \in SymbolInputs : AddSymbol(symbol)
    \/ \E symbol \in SymbolInputs : RemoveSymbol(symbol)
    \/ \E t \in timers : AnalysisTick(t)
    \/ \E c \in BagToSet(cycles) : CycleAnalyze(c, Some(Sig("BUY", 10000, 9500, 10750)))
    \/ \E c \in BagToSet(cycles) : CycleAnalyze(c, None)
    \/ \E c \in BagToSet(cycles) : CycleValidate(c)
    \/ \E c \in BagToSet(cycles), ticket \in Tickets : CycleSubmit(c, ticket)

SpecStatus == Init /\ [][StatusNext]_vars

\* start() and stop() called again and again on one orchestrator, its timers
\* firing in between; a default symbol is removed, and addSymbol is given
\* another symbol only, so that a removed symbol that is monitored again
\* was not added by it
MaxRestarts == 2         \* start() calls that connect successfully

RestartNext ==
    \/ StartCall
    \/ \E outcome \in ConnectOutcomes : StartResumeWithin(outcome, MaxRestarts)
    \/ Stop
    \/ \E symbol \in SymbolInputs : RemoveSymbol(symbol)
    \/ AddSymbol("usdjpy")
    \/ \E t \in timers : AnalysisTick(t)
    \/ \E c \in BagToSet(cycles) : CycleAnalyze(c, None)
    \/ \E t \in timers : MonitorTick(t)

SpecRestart == Init /\ [][RestartNext]_vars

\* ---- the SMC strategy called with bar windows of any length
\* -- analyze(symbol, ohlc, marketData)
Analyze(symbol, ohlc, marketData) ==
    \E call \in {analyze(strategyActive["SMC"],
                         [orderBlocks |-> orderBlocks, liquidityZones |-> liquidityZones,
                          fairValueGaps |-> fairValueGaps],
                         symbol, ohlc, marketData)} :
        /\ orderBlocks' = call.sets.orderBlocks
        /\ liquidityZones' = call.sets.liquidityZones
        /\ fairValueGaps' = call.sets.fairValueGaps
        /\ analyzeCall' = Some([symbol |-> symbol, ohlc |-> ohlc, bid |-> marketData.bid,
                                 result |-> call.result])
        /\ lastOp' = "analyze"
        /\ UNCHANGED <<learnVars, riskVars, coreVars, totalTrades, wireVars>>

\* -- activate() / deactivate()
SetActive(active) ==
    /\ strategyActive' = [strategyActive EXCEPT !["SMC"] = active]
    /\ analyzeCall' = None
    /\ lastOp' = IF active THEN "activate" ELSE "deactivate"
    /\ UNCHANGED <<orderBlocks, liquidityZones, fairValueGaps, totalTrades, wireVars>>
    /\ UNCHANGED <<learnVars, riskVars>>
    /\ UNCHANGED <<isConnected, brokerPositions, isRunning, analysisInterval, timers,
                   nextTimerId, startsInFlight, symbolEntries, signalHistory, cycles,
                   monitors, analysed, startReturn, lastRequest>>

\* bar windows: a quiet market at 1.0000, and the same with a rejection
\* candle at bar k (lower wick twice the body, heavy volume) followed by two
\* bars at 1.0050
QuietBar(price) ==
    [open |-> price, high |-> price, low |-> price, close |-> price, volume |-> 500]

RejectionBar ==
    [open |-> 10000, high |-> 10030, low |-> 9960, close |-> 10020, volume |-> 1500]

Window(n, k) ==
    [i \in 1..n |->
        IF k > 0 /\ i = k + 1 THEN RejectionBar
        ELSE IF k > 0 /\ i \in {k + 2, k + 3} THEN QuietBar(10050)
        ELSE QuietBar(10000)]

\* the same window after the market came back to the candle's low
\* `touches` times and then fell through it: the last bar closes up, below
\* the low
TouchBar ==
    [open |-> 10000, high |-> 10000, low |-> 9965, close |-> 10000, volume |-> 500]

ReversalBar ==
    [open |-> 9930, high |-> 9945, low |-> 9930, close |-> 9945, volume |-> 500]

GrabWindow(n, k, touches) ==
    [i \in 1..n |->
        IF i = n THEN ReversalBar
        ELSE IF i \in (k + 6)..(k + 5 + touches) THEN TouchBar
        ELSE Window(n, k)[i]]

\* a rising market in which every bar is a rejection candle that closes
\* above the high of the bar before: wicks of 0.5, 1 and 1.5 bodies and
\* light and heavy volume in turn
StairBar(i) ==
    [open |-> 10000 + 30 * i, high |-> 10020 + 30 * i,
     low |-> 10000 + 30 * i - (10 + 10 * (i % 3)), close |-> 10020 + 30 * i,
     volume |-> IF i % 2 = 0 THEN 1500 ELSE 500]

StairWindow(n) == [i \in 1..n |-> StairBar(i)]

WindowLengths == {0, 30, 49, 50, 60}
Windows ==
    {Window(n, k) : n \in WindowLengths, k \in {0, 20}}
        \cup {GrabWindow(60, 20, touches) : touches \in {1, 2}}
        \cup {StairWindow(60), Window(50, 5)}
Bids == {9940, 10000, 10030}
DetectorSymbols == {"EURUSD", "GBPUSD"}

DetectorNext ==
    \/ \E symbol \in DetectorSymbols, ohlc \in Windows, bid \in Bids :
          Analyze(symbol, ohlc, [bid |-> bid, spread |-> 10])
    \/ \E active \in BOOLEAN : SetActive(active)

SpecDetector == Init /\ [][DetectorNext]_vars

\* the monitoring callbacks of an orchestrator that runs with two executed
\* BUY signals, their positions open at the broker (entry 1.1000, stop
\* 1.0950)
MonitorSignal == Sig("BUY", 11000, 10950, 13000)
MonitorTickets == <<100001, 100002>>

MonitorInit ==
    /\ LearningEngineInit
    /\ RiskManagerInit
    /\ SMCStrategyInit
    /\ ConnectionInit
    /\ isConnected = TRUE
    /\ isRunning = TRUE
    /\ analysisInterval = Some(1)
    /\ timers = {[id |-> 1, kind |-> "analysis"], [id |-> 2, kind |-> "monitor"]}
    /\ nextTimerId = 3
    /\ startsInFlight = 0
    /\ strategyActive = [k \in RegisteredStrategies |-> TRUE]
    /\ symbolEntries = SetAddAll(<<>>, DefaultSymbols)
    /\ signalHistory = [k \in 1..Len(MonitorTickets) |->
                           [signal |-> MonitorSignal, ticket |-> MonitorTickets[k],
                            outcome |-> None]]
    /\ brokerPositions = [k \in 1..Len(MonitorTickets) |->
                             Pos(MonitorTickets[k], 11000, 11000, 10950, 0)]
    /\ cycles = EmptyBag
    /\ monitors = EmptyBag
    /\ analysed = None
    /\ startReturn = None
    /\ lastRequest = None
    /\ lastOp = "init"

MonitorNext ==
    \/ \E t \in timers : MonitorBegin(t)
    \/ \E m \in BagToSet(monitors), p \in {None} \cup {Some(brokerPositions), Some(<<>>)},
          delivered \in BOOLEAN : MonitorRisk(m, p, delivered)
    \/ \E m \in BagToSet(monitors), a \in {None, Some(CoreAccount)} : MonitorDailyPL(m, a)
    \/ \E m \in BagToSet(monitors), p \in {None} \cup {Some(brokerPositions), Some(<<>>)} :
          MonitorFetch(m, p)
    \/ \E m \in BagToSet(monitors), result \in Outcomes : MonitorResolve(m, result)
    \/ \E i \in 1..Len(brokerPositions), price \in MonitorPrices : PriceMoves(i, price)
    \/ \E i \in 1..Len(brokerPositions) : BrokerCloses(i)
    \/ ConnectionClosed
    \/ Stop

SpecMonitor == MonitorInit /\ [][MonitorNext]_vars

\* the same orchestrator with the gateway answering every request, the
\* outcome of a closed trade drawn as updateLearningData draws it: two
\* random numbers (0.1, 0.5 or 0.8 each)
RandomDraws == {1, 5, 8}

OutcomeNext ==
    \/ \E t \in timers : MonitorBegin(t)
    \/ \E m \in BagToSet(monitors) : MonitorRisk(m, Some(brokerPositions), FALSE)
    \/ \E m \in BagToSet(monitors) : MonitorDailyPL(m, Some(CoreAccount))
    \/ \E m \in BagToSet(monitors) : MonitorFetch(m, Some(brokerPositions))
    \/ \E m \in BagToSet(monitors), r1, r2 \in RandomDraws : MonitorResolveDrawn(m, r1, r2)
    \/ \E i \in 1..Len(brokerPositions) : BrokerCloses(i)

SpecOutcome == MonitorInit /\ [][OutcomeNext]_vars

\* the analysis cycle over every monitored symbol, the feed failing, timing
\* out or running short at any request; the markets give no signal.  The
\* interval timer keeps firing and every request is answered or times out,
\* hence the fairness.
AllSymbols == {DefaultSymbols[i] : i \in 1..Len(DefaultSymbols)}
AllMarketData == {Some(Tick), None}
AllOHLC == {Some(n) : n \in BarCounts} \cup {None}

FeedAnalysisOf(c) ==
    \E marketData \in AllMarketData, ohlc \in AllOHLC :
        AnalyzeSymbol(c, AllSymbols, marketData, ohlc, None)

FeedAnalysis == \E c \in BagToSet(cycles) : FeedAnalysisOf(c)

\* the callbacks of this specification, by their position in the loop
AnalysisTasks ==
    {[iter |-> k, pc |-> "next", signal |-> None, result |-> None] :
        k \in 0..Len(DefaultSymbols)}

AnalysisNext ==
    \/ StartCall
    \/ \E outcome \in ConnectOutcomes : StartResume(outcome)
    \/ Stop
    \/ ConnectionClosed
    \/ \E t \in timers : AnalysisTick(t)
    \/ FeedAnalysis

SpecAnalysis ==
    /\ Init
    /\ [][AnalysisNext]_vars
    /\ WF_vars(\E t \in timers : AnalysisTick(t))
    /\ \A c \in AnalysisTasks : WF_vars(FeedAnalysisOf(c))

\* the analysis timer firing while callbacks of earlier ticks are in flight
\* (each request may take up to its 5 s timeout, the period is 15 s)
MaxOverlap == 2          \* analysis callbacks in flight at once

OverlapNext ==
    \/ StartCall
    \/ \E outcome \in ConnectOutcomes : StartResume(outcome)
    \/ \E t \in timers : AnalysisTickWithin(t, MaxOverlap)
    \/ \E c \in BagToSet(cycles), s \in CoreSignals : CycleAnalyze(c, Some(s))
    \/ \E c \in BagToSet(cycles) : CycleAnalyze(c, None)
    \/ \E c \in BagToSet(cycles) : CycleValidate(c)
    \/ \E c \in BagToSet(cycles), ticket \in Tickets : CycleSubmit(c, ticket)

SpecOverlap == Init /\ [][OverlapNext]_vars

\* ---- the risk manager under its callers and a changing account
\* n open positions
OpenPositions(n) == [i \in 1..n |-> Pos(i, 10000, 10000, 9500, 0)]

Balances == {9400, 9401, 10000}
RiskSignals == {Sig("BUY", 10000, 9500, 11000), Sig("SELL", 10000, 10500, 9500)}
RiskAccounts == {None} \cup {Some([balance |-> b, equity |-> b]) : b \in Balances}
RiskPositionLists == {None} \cup {Some(OpenPositions(n)) : n \in {0, 4, 5}}
RiskTicks == {None} \cup {Some([symbol |-> "EURUSD", spread |-> sp]) : sp \in {30, 31}}
RiskInfos == {None, Some(StandardInfo)}
RiskParamUpdates ==
    {MapSet(<<>>, "maxDailyLoss", 50), MapSet(<<>>, "maxOpenPositions", 4),
     DefaultRiskParams}
Short(position) == [position EXCEPT !.type = "SELL"]

MonitorLists ==
    {None, Some(<<>>),
     Some(<<Pos(1, 10000, 10800, 9500, 80), Pos(2, 10000, 9000, 9500, -400)>>),
     Some(<<Pos(3, 10000, 9700, 9500, -399), Pos(4, 10000, 10740, 9500, 400),
            Short(Pos(5, 10000, 9250, 10500, 75)), Pos(6, 10000, 10800, 10000, 80),
            Pos(10, 10000, 9600, 9500, -400)>>),
     Some(<<Pos(7, 10000, 9630, 9500, -376), Short(Pos(8, 10000, 10370, 10500, -377)),
            Short(Pos(9, 10000, 10800, 10500, -80))>>)}

RiskInit == LearningEngineInit /\ RiskManagerInit /\ CoreInit /\ lastOp = "init"

\* the tickets whose requests the gateway fails in one monitoring cycle
FailedTickets == {{}, {1}, {4, 7}}

RiskNext ==
    \/ \E sig \in RiskSignals :
          ValidateTrade(sig, RiskAccounts, RiskPositionLists, RiskTicks, RiskInfos)
    \/ \E p \in MonitorLists, failed \in FailedTickets : MonitorPositions(p, failed)
    \/ \E a \in RiskAccounts : UpdateDailyPL(a)
    \/ \E np \in RiskParamUpdates : UpdateRiskParams(np)
    \/ ResetCall
    \/ \E a \in RiskAccounts : ResetInitialize(a)
    \/ ResetClear

SpecRisk == RiskInit /\ [][RiskNext /\ UNCHANGED <<coreVars, smcVars, wireVars>>]_vars

\* ---- sizing and target adjustment over signals, equities and symbol limits
SizingSignals ==
    {Sig("BUY", 10000, 9500, 11000),      \* reward:risk 2.0
     Sig("BUY", 10000, 9500, 10500),      \* 1.0
     Sig("SELL", 10000, 10500, 9500),     \* 1.0
     Sig("SELL", 10000, 10400, 9400),     \* 1.5
     Sig("BUY", 10000, 10300, 10100),     \* stop above a BUY entry
     Sig("SELL", 10000, 9970, 9900),      \* stop 3 points from entry
     Sig("BUY", 10000, 10000, 10200),     \* stop at entry
     Sig("CLOSE", 10000, 9500, 10000)}
SizingAccounts == {Some([balance |-> 10000, equity |-> e]) : e \in {0, 10, 9400, 10000}}
SizingInfos ==
    {None, Some(StandardInfo), Some([volumeMin |-> 10, volumeMax |-> 500, volumeStep |-> 10])}
SizingParamUpdates ==
    {MapSet(<<>>, "minRiskReward", 20), MapSet(<<>>, "maxRiskPerTrade", 10),
     DefaultRiskParams}

SizingNext ==
    \/ \E sig \in SizingSignals :
          ValidateTrade(sig, SizingAccounts, {Some(<<>>)},
                        {Some([symbol |-> "EURUSD", spread |-> 10])}, SizingInfos)
    \/ \E np \in SizingParamUpdates : UpdateRiskParams(np)

SpecSizing == RiskInit /\ [][SizingNext /\ UNCHANGED <<coreVars, smcVars, wireVars>>]_vars

\* ---- arbitration as a function of the weight maps and the candidate list
MaxCandidates == 3
ArbiterStrategies == {"SMC", "ICT"}
ArbiterSymbol == "EURUSD"
Confidences == {60, 90}
\* weights that outcome feedback reaches from 1.0 (10 losses, 4 wins)
SeedStrategyWeights == {80, DefaultWeight, 120}
SeedSymbolWeights == {90, DefaultWeight}

CandidateLists ==
    UNION {{[i \in 1..n |-> [symbol |-> ArbiterSymbol, strategy |-> f[i][1],
                              confidence |-> f[i][2], timestamp |-> i]] :
                f \in [1..n -> ArbiterStrategies \X Confidences]} : n \in 0..MaxCandidates}

ArbiterInit ==
    /\ strategyWeights \in
           {[s \in PresetStrategies |-> IF s = "SMC" THEN a ELSE IF s = "ICT" THEN b
                                                   ELSE DefaultWeight] :
                a \in SeedStrategyWeights, b \in SeedStrategyWeights}
    /\ symbolPerformance \in
           {<<>>} \cup {MapSet(<<>>, ArbiterSymbol, MapSet(MapSet(<<>>, "SMC", a), "ICT", b)) :
                           a \in SeedSymbolWeights, b \in SeedSymbolWeights}
    /\ lastTrade = None
    /\ candidates = <<>>
    /\ selected = None
    /\ scores = <<>>
    /\ RiskManagerInit
    /\ CoreInit
    /\ lastOp = "init"

SelectBestSignal(signals, symbol, rounding) ==
    /\ candidates' = signals
    /\ selected' = selectBestSignal(signals, symbol, rounding)
    /\ scores' = computedScores(signals, symbol, rounding)
    /\ lastOp' = "selectBestSignal"
    /\ UNCHANGED <<strategyWeights, symbolPerformance, lastTrade, riskVars>>

\* one call in each behaviour: the call reads the maps and writes nothing,
\* so that a second call finds the state of the first
ArbiterNext ==
    /\ lastOp = "init"
    /\ \E signals \in CandidateLists :
          \E rounding \in Roundings(signals) :
              SelectBestSignal(signals, ArbiterSymbol, rounding)

SpecArbiter == ArbiterInit /\ [][ArbiterNext /\ UNCHANGED <<coreVars, smcVars, wireVars>>]_vars

\* ---- outcome feedback and arbitration over several strategies and symbols
\* the distance of the stored weights from the default, in hundredths
RECURSIVE SumOf(_, _)
SumOf(f, keys) ==
    IF keys = {} THEN 0
    ELSE LET k == CHOOSE x \in keys : TRUE
         IN  f[k] + SumOf(f, keys \ {k})

Drift ==
    SumOf([s \in DOMAIN strategyWeights |-> Abs(strategyWeights[s] - DefaultWeight)],
          DOMAIN strategyWeights)
    + SumOf([y \in DOMAIN symbolPerformance |->
                SumOf([s \in DOMAIN symbolPerformance[y] |->
                          Abs(symbolPerformance[y][s] - DefaultWeight)],
                      DOMAIN symbolPerformance[y])],
            DOMAIN symbolPerformance)

MaxDrift == 4
WeightStrategies == {"ICT", SMCName}
WeightSymbols == {"EURUSD", "GBPUSD"}
WeightCandidateLists ==
    {l \in CandidateLists : /\ Len(l) = 2
                            /\ l[1].confidence = 60 /\ l[2].confidence = 90
                            /\ l[1].strategy # l[2].strategy}

WeightsNext ==
    \/ /\ Drift < MaxDrift
       /\ \E s \in WeightStrategies, y \in WeightSymbols,
             o \in {None} \cup {Some([result |-> r]) : r \in Outcomes} :
              UpdateFromTrade([signal |-> [strategy |-> s, symbol |-> y], outcome |-> o])
    \/ \E signals \in WeightCandidateLists, y \in WeightSymbols :
          SelectBestSignal(signals, y, [o \in ScoreOperands(signals) |-> 0])

SpecWeights == LearnInit /\ [][WeightsNext /\ UNCHANGED <<coreVars, smcVars, wireVars>>]_vars

\* ---- a running orchestrator on an account that holds one position less
\* than maxOpenPositions, its analysis callbacks overlapping and each one
\* free to find a BUY signal
FilledInit ==
    /\ LearningEngineInit
    /\ RiskManagerInit
    /\ SMCStrategyInit
    /\ ConnectionInit
    /\ isConnected = TRUE
    /\ isRunning = TRUE
    /\ analysisInterval = Some(1)
    /\ timers = {[id |-> 1, kind |-> "analysis"], [id |-> 2, kind |-> "monitor"]}
    /\ nextTimerId = 3
    /\ startsInFlight = 0
    /\ strategyActive = [k \in RegisteredStrategies |-> TRUE]
    /\ symbolEntries = SetAddAll(<<>>, DefaultSymbols)
    /\ signalHistory = <<>>
    /\ brokerPositions = OpenPositions(DefaultRiskParams.maxOpenPositions - 1)
    /\ cycles = EmptyBag
    /\ monitors = EmptyBag
    /\ analysed = None
    /\ startReturn = None
    /\ lastRequest = None
    /\ lastOp = "init"

FilledNext ==
    \/ \E t \in timers : AnalysisTickWithin(t, MaxOverlap)
    \/ \E c \in BagToSet(cycles) :
          CycleAnalyzeWithin(c, Some(Sig("BUY", 10000, 9500, 10750)), MaxOverlap)
    \/ \E c \in BagToSet(cycles) : CycleAnalyzeWithin(c, None, MaxOverlap)
    \/ \E c \in BagToSet(cycles) : CycleValidate(c)
    \/ \E c \in BagToSet(cycles), ticket \in Tickets : CycleSubmit(c, ticket)
    \/ ConnectionClosed

SpecFilled == FilledInit /\ [][FilledNext]_vars

\* ---- MT5Connection.sendRequest: the calls of the analysis and of the
\* monitoring cycle on one socket, the clock, the bridge's responses and
\* the 5 s timers
MaxRequests == 2         \* sendRequest calls
MaxClock == 1            \* milliseconds that pass

RequestActions == {"GET_MARKET_DATA", "GET_POSITIONS"}

\* response.data of the bridge's response to the k-th call, and null
ResponseData(k) == [request |-> k]
NullData == [request |-> 0]

\* a promise is settled by its first resolve() call
Resolve(call, data) ==
    IF call.resolution = None THEN [call EXCEPT !.resolution = Some(data)] ELSE call

\* the socket dispatches a message event: every registered responseHandler
\* runs, and the ones whose requestId equals response.id remove themselves
\* and resolve their promise with response.data
Dispatch(calls, response) ==
    [i \in 1..Len(calls) |->
        IF calls[i].listening /\ calls[i].id = response.id
        THEN Resolve([calls[i] EXCEPT !.listening = FALSE], response.data)
        ELSE calls[i]]

\* sendRequest(action): resolve(null) at once unless the socket is open,
\* else requestId = Date.now().toString(), the listener, the message and
\* the timer
SendRequest(action) ==
    /\ Len(sentRequests) < MaxRequests
    /\ sentRequests' =
          Append(sentRequests,
                 IF isConnected
                 THEN [id |-> now, action |-> action, sent |-> TRUE, listening |-> TRUE,
                       timer |-> TRUE, answered |-> FALSE, resolution |-> None]
                 ELSE [id |-> now, action |-> action, sent |-> FALSE,
                       listening |-> FALSE, timer |-> FALSE, answered |-> FALSE,
                       resolution |-> Some(NullData)])
    /\ lastOp' = "sendRequest"
    /\ UNCHANGED <<learnVars, riskVars, coreVars, smcVars, now>>

\* a millisecond passes
ClockTick ==
    /\ now < MaxClock
    /\ now' = now + 1
    /\ lastOp' = "clock"
    /\ UNCHANGED <<learnVars, riskVars, coreVars, smcVars, sentRequests>>

\* the bridge's response to the k-th call arrives on the open socket
BridgeResponds(k) ==
    /\ isConnected
    /\ k \in 1..Len(sentRequests)
    /\ sentRequests[k].sent /\ ~sentRequests[k].answered
    /\ sentRequests' =
          Dispatch([sentRequests EXCEPT ![k].answered = TRUE],
                   [id |-> sentRequests[k].id, data |-> ResponseData(k)])
    /\ lastOp' = "response"
    /\ UNCHANGED <<learnVars, riskVars, coreVars, smcVars, now>>

\* the setTimeout of the i-th call fires: the listener is removed and the
\* promise resolved with null (a promise already resolved stays as it is)
RequestTimeout(i) ==
    /\ i \in 1..Len(sentRequests)
    /\ sentRequests[i].timer
    /\ sentRequests' =
          [sentRequests EXCEPT
              ![i] = Resolve([@ EXCEPT !.timer = FALSE, !.listening = FALSE], NullData)]
    /\ lastOp' = "timeout"
    /\ UNCHANGED <<learnVars, riskVars, coreVars, smcVars, now>>

RequestsNext ==
    \/ StartCall
    \/ \E outcome \in ConnectOutcomes : StartResume(outcome)
    \/ ConnectionClosed
    \/ \E action \in RequestActions : SendRequest(action)
    \/ ClockTick
    \/ \E k \in 1..Len(sentRequests) : BridgeResponds(k)
    \/ \E i \in 1..Len(sentRequests) : RequestTimeout(i)

SpecRequests == Init /\ [][RequestsNext]_vars

(***************************************************************************)
(* Claims                                                                  *)
(***************************************************************************)
InWeightRange(w) == 10 <= w /\ w <= 200

\* C1: after any sequence of updateFromTrade calls every stored strategy
\* weight and every stored (symbol, strategy) weight lies in [0.1, 2.0].
C1_WeightsInRange ==
    /\ \A s \in DOMAIN strategyWeights : InWeightRange(strategyWeights[s])
    /\ \A y \in DOMAIN symbolPerformance :
          \A s \in DOMAIN symbolPerformance[y] : InWeightRange(symbolPerformance[y][s])

\* a losing trade arrives when both of its weights already sit on the floor
C1_Witness ==
    /\ lastOp = "updateFromTrade"
    /\ lastTrade[1].signal.strategy = SMCName /\ lastTrade[1].signal.symbol = "EURUSD"
    /\ lastTrade[1].outcome = <<[result |-> "loss"]>>
    /\ strategyWeights[SMCName] = 10
    /\ symbolPerformance["EURUSD"][SMCName] = 10

\* C2: once the trading-blocked flag is true it stays true through every
\* validateTrade, monitorPositions, updateDailyPL and updateRiskParams call,
\* whatever balance is reported; only resetDailyTracking clears it.
C2_BlockedSticky ==
    [][ /\ (isTradeBlocked /\ ~isTradeBlocked') => lastOp' = "resetDailyTracking"
        /\ (isTradeBlocked /\ lastOp' \in {"validateTrade", "monitorPositions",
                                           "updateDailyPL", "updateRiskParams"})
              => isTradeBlocked'
      ]_vars

\* blocked, and still blocked after updateDailyPL saw the balance back at the
\* day's start
C2_Witness ==
    /\ isTradeBlocked
    /\ lastOp = "updateDailyPL"
    /\ dailyStartBalance = 10000
    /\ dailyPL = 0

\* C3: a validateTrade call that sees dayStartBalance - balance >=
\* dayStartBalance x maxDailyLoss/100 (10,000 and 6.0: balance <= 9,400)
\* sets the flag and returns invalid; while the flag is set every validateTrade
\* call returns invalid with the blocked reason, for every signal and balance,
\* and the flag stays set until the daily reset clears it.
C3_DailyLossBlocks ==
    [][ /\ (lastOp' = "validateTrade" /\ ~isTradeBlocked
              /\ validation'[1].resp.account # None
              /\ (dailyStartBalance - validation'[1].resp.account[1].balance) * 1000
                    >= dailyStartBalance * riskParams.maxDailyLoss)
             => (isTradeBlocked' /\ ~validation'[1].result.isValid)
        /\ (lastOp' = "validateTrade" /\ ~isTradeBlocked
              /\ dailyStartBalance = 10000 /\ riskParams.maxDailyLoss = 60
              /\ validation'[1].resp.account # None
              /\ validation'[1].resp.account[1].balance <= 9400)
             => (isTradeBlocked' /\ ~validation'[1].result.isValid)
        /\ (lastOp' = "validateTrade" /\ isTradeBlocked)
             => /\ ~validation'[1].result.isValid
                /\ validation'[1].result.reason = "Trading blocked due to daily loss limit"
        /\ (isTradeBlocked /\ lastOp' # "resetDailyTracking") => isTradeBlocked'
      ]_vars

\* day start 10,000, limit 6.0: the flag is set and a validateTrade call has
\* just been turned away with the blocked reason
C3_Witness ==
    /\ lastOp = "validateTrade"
    /\ dailyStartBalance = 10000
    /\ riskParams.maxDailyLoss = 60
    /\ isTradeBlocked
    /\ validation[1].result.reason = "Trading blocked due to daily loss limit"

\* C5: validateTrade runs its checks in the order blocked flag, daily loss,
\* position count (>= maxOpenPositions), spread (> maxSpread), position size
\* (<= 0); it stops at the first failing check with that check's reason, no
\* adjusted signal and no collaborator call of a later check, and always
\* returns a result.
CheckOrder == <<"getAccountInfo", "getPositions", "getMarketData", "getSymbolInfo">>

C5_OrderedShortCircuit ==
    [][ lastOp' = "validateTrade" =>
          /\ validation' # None
          /\ LET r == validation'[1].result
                 resp == validation'[1].resp
                 n == Len(r.calls)
             IN  /\ r.calls = SubSeq(CheckOrder, 1, n)
                 /\ ~r.isValid => (r.adjustedSignal = <<>> /\ r.positionSize = <<>>)
                 /\ IF isTradeBlocked
                    THEN ~r.isValid /\ n = 0
                         /\ r.reason = "Trading blocked due to daily loss limit"
                    ELSE n >= 1 /\ (resp.account = <<>> => (~r.isValid /\ n = 1))
                 /\ (~isTradeBlocked /\ resp.account # <<>>) =>
                      IF (dailyStartBalance - resp.account[1].balance) * 1000
                            >= dailyStartBalance * riskParams.maxDailyLoss
                      THEN ~r.isValid /\ n = 1 /\ r.reason = "Daily loss limit reached"
                      ELSE /\ n >= 2
                           /\ resp.positions = <<>> => (~r.isValid /\ n = 2)
                           /\ resp.positions # <<>> =>
                                IF Len(resp.positions[1]) >= riskParams.maxOpenPositions
                                THEN ~r.isValid /\ n = 2
                                     /\ r.reason = "Maximum open positions reached"
                                ELSE /\ n >= 3
                                     /\ resp.tick = <<>> => (~r.isValid /\ n = 3)
                                     /\ resp.tick # <<>> =>
                                          IF resp.tick[1].spread > riskParams.maxSpread
                                          THEN ~r.isValid /\ n = 3
                                               /\ r.reason = "Spread too wide"
                                          ELSE /\ n = 4
                                               /\ r.isValid => r.positionSize[1] > 0
                                               /\ ~r.isValid =>
                                                    r.reason = "Unable to calculate valid position size"
      ]_vars

\* the position-count check fails: rejected with its reason before any
\* market-data or symbol-info request
C5_Witness ==
    /\ lastOp = "validateTrade"
    /\ validation[1].result.reason = "Maximum open positions reached"
    /\ validation[1].result.calls = <<"getAccountInfo", "getPositions">>
    /\ ~validation[1].result.isValid

\* C6: for every accepted signal the position size is a number in
\* [volumeMin, volumeMax] and a whole multiple of volumeStep: it is the raw
\* size equity x maxRiskPerTrade/100 / stop distance, rounded to the nearest
\* step and held to the range; a size <= 0 is rejected.
C6_SizeClampedToStep ==
    (lastOp = "validateTrade" /\ validation[1].result.calls = CheckOrder) =>
        LET v == validation[1]
            info == v.resp.info
            size == v.result.positionSize[1]
            d == IF v.signal.entry >= v.signal.stopLoss
                 THEN v.signal.entry - v.signal.stopLoss
                 ELSE v.signal.stopLoss - v.signal.entry
            \* raw size = num / d hundredths of a lot
            num == v.resp.account[1].equity * riskParams.maxRiskPerTrade
        IN  /\ info = <<>> => ~v.result.isValid
            /\ v.result.isValid =>
                 /\ size # NaN
                 /\ size > 0
                 /\ info[1].volumeMin <= size /\ size <= info[1].volumeMax
                 /\ size % info[1].volumeStep = 0
                 /\ (d > 0 /\ info[1].volumeMin < size /\ size < info[1].volumeMax) =>
                        /\ 2 * (size * d - num) <= info[1].volumeStep * d
                        /\ 2 * (num - size * d) <= info[1].volumeStep * d
                 /\ (d > 0 /\ size = info[1].volumeMin) =>
                        2 * num < (2 * info[1].volumeMin + info[1].volumeStep) * d
                 /\ (d > 0 /\ size = info[1].volumeMax) =>
                        2 * num >= (2 * info[1].volumeMax - info[1].volumeStep) * d

\* the same with the case left out in which both the risk amount and the
\* stop distance are zero
C6_SizeClampedUnlessNaN ==
    (lastOp = "validateTrade" /\ validation[1].result.calls = CheckOrder) =>
        LET v == validation[1]
            info == v.resp.info
            size == v.result.positionSize[1]
            d == IF v.signal.entry >= v.signal.stopLoss
                 THEN v.signal.entry - v.signal.stopLoss
                 ELSE v.signal.stopLoss - v.signal.entry
            num == v.resp.account[1].equity * riskParams.maxRiskPerTrade
        IN  /\ info = <<>> => ~v.result.isValid
            /\ (v.result.isValid /\ (d > 0 \/ num > 0)) =>
                 /\ size # NaN
                 /\ info[1].volumeMin <= size /\ size <= info[1].volumeMax
                 /\ size % info[1].volumeStep = 0
                 /\ (d > 0 /\ info[1].volumeMin < size /\ size < info[1].volumeMax) =>
                        /\ 2 * (size * d - num) <= info[1].volumeStep * d
                        /\ 2 * (num - size * d) <= info[1].volumeStep * d
                 /\ (d > 0 /\ size = info[1].volumeMin) =>
                        2 * num < (2 * info[1].volumeMin + info[1].volumeStep) * d
                 /\ (d > 0 /\ size = info[1].volumeMax) =>
                        2 * num >= (2 * info[1].volumeMax - info[1].volumeStep) * d
            /\ (v.result.isValid /\ d = 0 /\ num = 0) => size = NaN

\* equity 0 and a stop at the entry price: accepted with the size NaN
C6_Witness ==
    /\ lastOp = "validateTrade"
    /\ validation[1].result.isValid
    /\ validation[1].signal.stopLoss = validation[1].signal.entry
    /\ validation[1].resp.account[1].equity = 0
    /\ validation[1].result.positionSize = <<NaN>>

ClaimScore(c) ==
    c.confidence
      * (IF c.strategy \in DOMAIN strategyWeights THEN strategyWeights[c.strategy] ELSE 100)
      * (IF ArbiterSymbol \in DOMAIN symbolPerformance
            /\ c.strategy \in DOMAIN symbolPerformance[ArbiterSymbol]
         THEN symbolPerformance[ArbiterSymbol][c.strategy] ELSE 100)

C8_SelectsFirstMaximum ==
    lastOp = "selectBestSignal" =>
        /\ Len(candidates) = 1 => selected = <<candidates[1]>>
        /\ Len(candidates) >= 1 =>
              \E i \in 1..Len(candidates) :
                  /\ selected = <<candidates[i]>>
                  /\ \A j \in 1..Len(candidates) :
                        ClaimScore(candidates[j]) <= ClaimScore(candidates[i])
                  /\ \A j \in 1..(i - 1) :
                        ClaimScore(candidates[j]) < ClaimScore(candidates[i])
        /\ ( /\ Len(candidates) = 2
             /\ strategyWeights["SMC"] = 120 /\ strategyWeights["ICT"] = 80
             /\ symbolPerformance = <<>>
             /\ candidates[1].strategy = "SMC" /\ candidates[1].confidence = 60
             /\ candidates[2].strategy = "ICT" /\ candidates[2].confidence = 90 )
           => selected = <<candidates[1]>>

\* what holds of the scores as computed: the result is the first candidate
\* of maximum computed score, a member of every non-empty list, and never a
\* candidate whose decimal product is below another's
C8_FirstMaximumOfComputed ==
    lastOp = "selectBestSignal" =>
        /\ Len(candidates) = 0 => selected = None
        /\ Len(candidates) = 1 => selected = <<candidates[1]>>
        /\ Len(candidates) >= 2 =>
              \E i \in 1..Len(candidates) :
                  /\ selected = <<candidates[i]>>
                  /\ \A j \in 1..Len(candidates) : scores[j] <= scores[i]
                  /\ \A j \in 1..(i - 1) : scores[j] < scores[i]
                  /\ \A j \in 1..Len(candidates) :
                        ClaimScore(candidates[j]) <= ClaimScore(candidates[i])

\* the example: A (0.6 x 1.2) listed before B (0.9 x 0.8), and B selected
C8_Witness ==
    /\ lastOp = "selectBestSignal"
    /\ Len(candidates) = 2
    /\ strategyWeights["SMC"] = 120 /\ strategyWeights["ICT"] = 80
    /\ symbolPerformance = <<>>
    /\ candidates[1].strategy = "SMC" /\ candidates[1].confidence = 60
    /\ candidates[2].strategy = "ICT" /\ candidates[2].confidence = 90
    /\ selected = <<candidates[2]>>

\* C9: updateFromTrade for strategy S on symbol Y sets strategyWeight(S) to
\* clamp(old + 0.05) on a win and clamp(old - 0.02) on a loss, and
\* symbolWeight(Y, S) to clamp(old + 0.03) on a win and clamp(old - 0.01) on
\* a loss; clamp bounds to [0.1, 2.0] and a weight never set counts as 1.0.
ClaimClamp(w) == IF w < 10 THEN 10 ELSE IF w > 200 THEN 200 ELSE w

C9_UpdateRule ==
    [][ (lastOp' = "updateFromTrade" /\ lastTrade'[1].outcome # None) =>
          LET S == lastTrade'[1].signal.strategy
              Y == lastTrade'[1].signal.symbol
              win == lastTrade'[1].outcome[1].result = "win"
              oldS == IF S \in DOMAIN strategyWeights THEN strategyWeights[S] ELSE 100
              oldY == IF Y \in DOMAIN symbolPerformance /\ S \in DOMAIN symbolPerformance[Y]
                      THEN symbolPerformance[Y][S] ELSE 100
          IN  /\ S \in DOMAIN strategyWeights'
              /\ strategyWeights'[S] = ClaimClamp(oldS + (IF win THEN 5 ELSE -2))
              /\ Y \in DOMAIN symbolPerformance'
              /\ S \in DOMAIN symbolPerformance'[Y]
              /\ symbolPerformance'[Y][S] = ClaimClamp(oldY + (IF win THEN 3 ELSE -1))
      ]_vars

\* a winning trade whose strategy weight is clamped at the ceiling while its
\* symbol weight still moves
C9_Witness ==
    /\ lastOp = "updateFromTrade"
    /\ lastTrade[1].signal.strategy = SMCName /\ lastTrade[1].signal.symbol = "EURUSD"
    /\ lastTrade[1].outcome = <<[result |-> "win"]>>
    /\ strategyWeights[SMCName] = 200
    /\ symbolPerformance["EURUSD"][SMCName] = 163

\* C4: every market order the orchestrator submits belongs to a task whose
\* signal validateTrade accepted in the same executeSignal call, and carries
\* the validator's position size and the adjusted signal's stop loss and
\* take profit; a rejection sends no order and no close request, adds no
\* history entry and ends the call; a history entry is added only with such
\* an order and holds the adjusted signal.
C4_OrdersOnlyForAccepted ==
    [][/\ lastRequest' # None =>
            \E c \in BagToSet(cycles) :
               /\ c.pc = "submit"
               /\ c.result # None
               /\ c.result[1].isValid
               /\ CopiesIn(c, cycles') < CopiesIn(c, cycles)
               /\ LET adj == c.result[1].adjustedSignal[1] IN
                  IF adj.action \in {"BUY", "SELL"}
                  THEN lastRequest'[1] =
                          [op |-> "placeMarketOrder", symbol |-> adj.symbol,
                           volume |-> c.result[1].positionSize[1],
                           type |-> IF adj.action = "BUY" THEN 0 ELSE 1,
                           stopLoss |-> adj.stopLoss, takeProfit |-> adj.takeProfit]
                  ELSE lastRequest'[1] = [op |-> "closeAllPositions",
                                          symbol |-> adj.symbol]
       /\ \A c \in BagToSet(cycles') :
            (c.pc = "submit" /\ CopiesIn(c, cycles') > CopiesIn(c, cycles)) =>
               /\ lastOp' = "validateTrade"
               /\ validation'[1].result.isValid
               /\ c.signal = Some(validation'[1].signal)
               /\ c.result = Some(validation'[1].result)
       /\ (lastOp' = "validateTrade" /\ ~validation'[1].result.isValid) =>
               /\ lastRequest' = None
               /\ signalHistory' = signalHistory
               /\ brokerPositions' = brokerPositions
               /\ \A c \in BagToSet(cycles') :
                     c.pc = "submit" => CopiesIn(c, cycles') <= CopiesIn(c, cycles)
       /\ Len(signalHistory') > Len(signalHistory) =>
               /\ lastRequest' # None
               /\ lastRequest'[1].op = "placeMarketOrder"
               /\ Len(signalHistory') = Len(signalHistory) + 1
               /\ LET h == signalHistory'[Len(signalHistory')] IN
                  /\ h.outcome = None
                  /\ h.signal.stopLoss = lastRequest'[1].stopLoss
                  /\ h.signal.takeProfit = lastRequest'[1].takeProfit
                  /\ h.signal.symbol = lastRequest'[1].symbol
      ]_vars

\* an order went out whose take profit the validator had moved (minimum
\* reward ratio raised to 2.0, the signal's ratio 1.5) and was recorded
C4_Witness ==
    /\ lastOp = "executeSignal.submit"
    /\ lastRequest # None
    /\ lastRequest[1].op = "placeMarketOrder"
    /\ lastRequest[1].volume = 400
    /\ lastRequest[1].stopLoss = 9500
    /\ lastRequest[1].takeProfit = 11000
    /\ Len(signalHistory) = 1
    /\ signalHistory[1].signal.takeProfit = 11000

\* C10: start() returns true, sets the running state and schedules the
\* analysis and the monitoring timer only when connect() reported success;
\* when it did not, start() returns false and leaves the running state, the
\* timers, the strategies' activation and the monitored symbols as they were.
\* No other step sets the running state or schedules a timer.
C10_StartOnlyAfterConnect ==
    [][/\ lastOp' = "start" =>
            /\ startReturn' \in {Some(TRUE), Some(FALSE)}
            /\ IF startReturn' = Some(TRUE)
               THEN /\ isConnected'
                    /\ isRunning'
                    /\ analysisInterval' # None
                    /\ \E a, m \in timers' \ timers :
                          /\ a.kind = "analysis" /\ a.id = analysisInterval'[1]
                          /\ m.kind = "monitor"
                    /\ \A k \in RegisteredStrategies : strategyActive'[k]
               ELSE /\ ~isConnected' \/ isConnected' = isConnected
                    /\ isRunning' = isRunning
                    /\ timers' = timers
                    /\ analysisInterval' = analysisInterval
                    /\ strategyActive' = strategyActive
                    /\ symbolEntries' = symbolEntries
       /\ (isRunning' /\ ~isRunning) => (lastOp' = "start" /\ startReturn' = Some(TRUE))
       /\ ~(timers' \subseteq timers) => (lastOp' = "start" /\ startReturn' = Some(TRUE))
       /\ (\E k \in RegisteredStrategies : strategyActive'[k] /\ ~strategyActive[k])
             => (lastOp' = "start" /\ startReturn' = Some(TRUE))
      ]_vars

\* a start() failed on the connection with one symbol being monitored: the
\* orchestrator is stopped, without timers, and monitors that symbol alone
C10_Witness ==
    /\ lastOp = "start"
    /\ startReturn = Some(FALSE)
    /\ ~isRunning
    /\ ~isConnected
    /\ timers = {}
    /\ analysisInterval = None
    /\ \A k \in RegisteredStrategies : ~strategyActive[k]
    /\ activeSymbols = {"EURUSD"}

\* C11: after stop() the orchestrator is in the stopped state, the analysis
\* timer and the position-monitoring timer are both cancelled, so that
\* neither fires again until a later start, and every registered strategy
\* is inactive.
C11_StopCancelsTimers ==
    [][/\ lastOp' = "stop" =>
            /\ ~isRunning'
            /\ analysisInterval' = None
            /\ timers' = {}
            /\ \A k \in RegisteredStrategies : ~strategyActive'[k]
       /\ (~isRunning /\ ~isRunning') => lastOp' \notin {"analysisTick", "monitorTick"}
      ]_vars

\* what stop() does: it leaves the stopped state, clears the one timer whose
\* id is held in analysisInterval and deactivates the strategies; every other
\* timer stays live
C11_StopCancelsAnalysisTimer ==
    [][lastOp' = "stop" =>
            /\ ~isRunning'
            /\ analysisInterval' = None
            /\ \A k \in RegisteredStrategies : ~strategyActive'[k]
            /\ timers' = {t \in timers : analysisInterval = None \/ t.id # analysisInterval[1]}
            /\ \A t \in timers : t.kind = "monitor" => t \in timers'
      ]_vars

\* stopped, strategies inactive, and the monitoring timer of the earlier
\* start() has just fired
C11_Witness ==
    /\ lastOp = "monitorTick"
    /\ ~isRunning
    /\ startsInFlight = 0
    /\ analysisInterval = None
    /\ \A k \in RegisteredStrategies : ~strategyActive[k]
    /\ \E t \in timers : t.kind = "monitor"

\* C12: for each symbol, an analysis does not begin while an earlier
\* analysis of the same symbol is still in flight: the signal the earlier
\* tick selected has been executed or rejected before the next analyzeSymbol
\* for that symbol starts, also when a cycle outlasts the timer period.
C12_AnalysisSerialized ==
    [][(lastOp' = "analyzeSymbol" /\ analysed' # None) =>
          \A a \in BagToSet(cycles) :
              a.signal # None => a.signal[1].symbol # analysed'[1].symbol
      ]_vars

\* what holds: inside one callback the symbols are taken one after the
\* other, so the callback that analyses holds no unresolved signal itself
C12_SerializedInCallback ==
    [][lastOp' = "analyzeSymbol" =>
          \E c \in BagToSet(cycles) :
              /\ c.pc = "next" /\ c.signal = None
              /\ CopiesIn(c, cycles') < CopiesIn(c, cycles)
      ]_vars

\* EURUSD has just been analysed by the callback of a later tick while the
\* signal an earlier callback selected for EURUSD awaits validation
C12_Witness ==
    /\ lastOp = "analyzeSymbol"
    /\ analysed # None
    /\ analysed[1].symbol = "EURUSD"
    /\ BagCardinality(cycles) = 2
    /\ \E a \in BagToSet(cycles) :
          a.pc = "validate" /\ a.signal # None /\ a.signal[1].symbol = "EURUSD"

\* C14: a failed, empty or timed-out fetch, or a thrown error, while
\* analysing one symbol skips only that symbol for that cycle: the callback
\* goes on to the remaining monitored symbols in the same cycle, the
\* orchestrator stays running with its timers, and while it keeps running
\* a later tick starts a cycle that analyses the skipped symbol again.
SkipEnds == {"noMarketData", "error", "insufficientBars"}

Skipped(symbol) ==
    analysed # None /\ analysed[1].symbol = symbol /\ analysed[1].end \in SkipEnds

Analysed(symbol) == analysed # None /\ analysed[1].symbol = symbol

CycleStarted ==
    /\ lastOp = "analysisTick"
    /\ isRunning
    /\ \E c \in BagToSet(cycles) : c.iter = 0

C14_SkipOnlySymbol ==
    /\ [][(lastOp' = "analyzeSymbol" /\ analysed' # None /\ analysed'[1].end \in SkipEnds) =>
            /\ isRunning' = isRunning
            /\ timers' = timers
            /\ analysisInterval' = analysisInterval
            /\ symbolEntries' = symbolEntries
            /\ lastRequest' = None
            /\ \E c \in BagToSet(cycles), d \in BagToSet(cycles') :
                  /\ CopiesIn(c, cycles') < CopiesIn(c, cycles)
                  /\ CopiesIn(d, cycles') > CopiesIn(d, cycles)
                  /\ d.pc = "next"
                  /\ d.iter > c.iter
                  /\ symbolEntries[d.iter].symbol = analysed'[1].symbol
                  /\ \A k \in (c.iter + 1)..(d.iter - 1) : ~symbolEntries[k].live
         ]_vars
    /\ [](isRunning => \E t \in timers : t.kind = "analysis")
    /\ \A i \in 1..Len(DefaultSymbols) : \A j \in (i + 1)..Len(DefaultSymbols) :
          Skipped(DefaultSymbols[i]) ~> Analysed(DefaultSymbols[j])
    /\ \A symbol \in AllSymbols :
          /\ Skipped(symbol) ~> (~isRunning \/ CycleStarted)
          /\ CycleStarted ~> Analysed(symbol)

\* the bars of GBPUSD timed out (ohlc.length of null threw) in a running
\* orchestrator whose callback had already taken EURUSD
C14_Witness ==
    /\ lastOp = "analyzeSymbol"
    /\ isRunning
    /\ analysed # None
    /\ analysed[1] = [symbol |-> "GBPUSD", end |-> "error"]
    /\ \E c \in BagToSet(cycles) : c.pc = "next" /\ c.iter = 2

\* ---- position monitoring
Requested(op, ticket) ==
    \E i \in 1..Len(monitorLog) : monitorLog[i].op = op /\ monitorLog[i].ticket = ticket

\* the unrealized profit in price units, in the position's own direction
DirectedProfit(position) ==
    IF position.type = "BUY" THEN position.currentPrice - position.openPrice
    ELSE position.openPrice - position.currentPrice

MonitoredCycle == lastOp = "monitorPositions" /\ monitored # None

\* C17: a monitoring cycle issues a break-even modification for a position
\* exactly when its unrealized profit in price units, in the position's own
\* direction, is at least 1.5 x the distance between open price and stop and
\* the stop is not at the open price; a losing position is never moved.
C17_BreakEvenWhenInProfit ==
    MonitoredCycle =>
        \A i \in 1..Len(monitored[1]) :
            LET position == monitored[1][i] IN
            /\ Requested("modifyPosition", position.ticket) <=>
                   /\ DirectedProfit(position) * 10
                         >= Abs(position.openPrice - position.stopLoss) * 15
                   /\ position.stopLoss # position.openPrice
            /\ DirectedProfit(position) < 0 => ~Requested("modifyPosition", position.ticket)

\* what holds: the move of the price from the open price is taken in
\* either direction
C17_BreakEvenByDistance ==
    MonitoredCycle =>
        \A i \in 1..Len(monitored[1]) :
            LET position == monitored[1][i] IN
            /\ Requested("modifyPosition", position.ticket) <=>
                   /\ Abs(position.currentPrice - position.openPrice) * 10
                         >= Abs(position.openPrice - position.stopLoss) * 15
                   /\ position.stopLoss # position.openPrice
            /\ \A j \in 1..Len(monitorLog) :
                  (monitorLog[j].op = "modifyPosition"
                     /\ monitorLog[j].ticket = position.ticket)
                  => /\ monitorLog[j].stopLoss = position.openPrice
                     /\ monitorLog[j].takeProfit = position.takeProfit

\* a BUY position whose price fell through its stop is sent to break-even
C17_Witness ==
    /\ MonitoredCycle
    /\ \E i \in 1..Len(monitored[1]) :
          /\ monitored[1][i].type = "BUY"
          /\ monitored[1][i].currentPrice < monitored[1][i].openPrice
          /\ monitored[1][i].profit < 0
          /\ Requested("modifyPosition", monitored[1][i].ticket)

\* C19: a monitoring cycle issues closePosition for a position exactly when
\* its profit is negative and its absolute value is at least
\* 2 x maxRiskPerTrade percent of the day's starting balance.
C19_EmergencyClose ==
    MonitoredCycle =>
        \A i \in 1..Len(monitored[1]) :
            LET position == monitored[1][i] IN
            Requested("closePosition", position.ticket) <=>
               /\ position.profit < 0
               /\ (0 - position.profit) * 100 * 10
                     >= 2 * riskParams.maxRiskPerTrade * dailyStartBalance

\* with a day's starting balance of 10000 and 2 % per trade: the loss of
\* 400 is closed, the loss of 399 and the profit of 400 are not
C19_Witness ==
    /\ MonitoredCycle
    /\ dailyStartBalance = 10000
    /\ riskParams.maxRiskPerTrade = 20
    /\ \E i \in 1..Len(monitored[1]) :
          monitored[1][i].profit = -399 /\ ~Requested("closePosition", monitored[1][i].ticket)
    /\ \E i \in 1..Len(monitored[1]) :
          monitored[1][i].profit = 400 /\ ~Requested("closePosition", monitored[1][i].ticket)
    /\ \E i \in 1..Len(monitored[1]) :
          monitored[1][i].profit = -400 /\ Requested("closePosition", monitored[1][i].ticket)

\* ---- the signal history
\* C16: a SignalHistoryEntry is appended exactly when a BUY or SELL market
\* order reports success, holding the adjusted signal, the order's ticket
\* and a pending outcome; rejected signals, failed orders and CLOSE actions
\* append nothing, and an entry once appended is never removed.
OrderSucceeded ==
    /\ lastOp' = "executeSignal.submit"
    /\ lastRequest' # None
    /\ lastRequest'[1].op = "placeMarketOrder"
    /\ isConnected

C16_HistoryOnSuccess ==
    [][/\ OrderSucceeded =>
            \E c \in BagToSet(cycles), ticket \in Tickets :
               /\ c.pc = "submit"
               /\ CopiesIn(c, cycles') < CopiesIn(c, cycles)
               /\ c.result[1].adjustedSignal[1].action \in {"BUY", "SELL"}
               /\ signalHistory' =
                     Append(signalHistory,
                            [signal |-> c.result[1].adjustedSignal[1],
                             ticket |-> ticket, outcome |-> None])
               /\ \E i \in 1..Len(brokerPositions') :
                     brokerPositions'[i].ticket = ticket
       /\ ~OrderSucceeded =>
            /\ Len(signalHistory') = Len(signalHistory)
            /\ \A i \in 1..Len(signalHistory) :
                  /\ signalHistory'[i].signal = signalHistory[i].signal
                  /\ signalHistory'[i].ticket = signalHistory[i].ticket
      ]_vars

\* an order failed on the closed connection and left the history empty
C16_WitnessFailed ==
    /\ lastOp = "executeSignal.submit"
    /\ lastRequest # None
    /\ lastRequest[1].op = "placeMarketOrder"
    /\ ~isConnected
    /\ signalHistory = <<>>

\* an order succeeded and its entry is pending
C16_Witness ==
    /\ lastOp = "executeSignal.submit"
    /\ lastRequest # None
    /\ lastRequest[1].op = "placeMarketOrder"
    /\ Len(signalHistory) = 1
    /\ signalHistory[1].outcome = None
    /\ signalHistory[1].ticket \in Tickets

\* ---- the monitoring callbacks
Resolved == {j \in 1..Len(signalHistory) : signalHistory[j].outcome # None}

ResolvedNow(j) == signalHistory[j].outcome = None /\ signalHistory'[j].outcome # None

OpenAtBroker == {brokerPositions[k].ticket : k \in 1..Len(brokerPositions)}

InitialWeights ==
    [strategyWeights |-> [st \in PresetStrategies |-> DefaultWeight],
     symbolPerformance |-> <<>>]

RECURSIVE ApplyInOrder(_, _)
ApplyInOrder(w, order) ==
    IF order = <<>> THEN w
    ELSE ApplyInOrder(ApplyTrade(w, signalHistory[Head(order)]), Tail(order))

Orders(S) ==
    {f \in [1..Cardinality(S) -> S] :
        \A a, b \in 1..Cardinality(S) : a # b => f[a] # f[b]}

\* C13: each outcome's weight update is atomic: the step that gives an
\* entry its outcome writes both of its weights from the weights of that
\* moment, no other step writes a weight, and after any interleaving of
\* concurrent monitoring callbacks (and of stop()) the weights are those of
\* applying the outcomes of the resolved entries one after another in some
\* order, each once.
C13_AtomicOutcomeUpdates ==
    /\ [](\E order \in Orders(Resolved) : Weights = ApplyInOrder(InitialWeights, order))
    /\ [][/\ \A j \in 1..Len(signalHistory) :
               ResolvedNow(j) =>
                  /\ Weights' = ApplyTrade(Weights, signalHistory'[j])
                  /\ \A k \in 1..Len(signalHistory) : ResolvedNow(k) => k = j
          /\ Weights' # Weights => \E j \in 1..Len(signalHistory) : ResolvedNow(j)
         ]_vars

\* a callback gave an entry its outcome while a second callback, which had
\* fetched the same position list, is yet to pass that entry
C13_Witness ==
    /\ lastOp = "updateLearningData.resolve"
    /\ \E j \in Resolved, m \in BagToSet(monitors) :
          /\ m.pc = "resolve"
          /\ m.i < j
          /\ signalHistory[j].ticket \notin m.openTickets
    /\ Weights # InitialWeights

\* C15: a pending entry is resolved only in a monitoring cycle whose live
\* position list was actually obtained from the gateway and does not hold
\* the entry's ticket; while the position is open the entry stays pending,
\* also when the fetch fails, times out or the connection is down.
C15_ResolvedOnlyWhenClosed ==
    [][\A j \in 1..Len(signalHistory) :
          ResolvedNow(j) =>
             /\ \E m \in BagToSet(monitors) :
                   /\ m.pc = "resolve"
                   /\ m.obtained
                   /\ signalHistory[j].ticket \notin m.openTickets
             /\ signalHistory[j].ticket \notin OpenAtBroker
      ]_vars

\* what holds: an entry is resolved only by a callback whose getPositions
\* call returned a list without the ticket, a call that returned null
\* resolves nothing, and a list the gateway sent resolves closed positions
\* only
C15_ResolvedWhenAbsentFromList ==
    [][/\ \A j \in 1..Len(signalHistory) :
             ResolvedNow(j) =>
                \E m \in BagToSet(monitors) :
                   /\ m.pc = "resolve"
                   /\ signalHistory[j].ticket \notin m.openTickets
                   /\ m.obtained => signalHistory[j].ticket \notin OpenAtBroker
       /\ lastOp' = "updateLearningData.fetch" => signalHistory' = signalHistory
      ]_vars

\* the connection went down and a callback resolved an entry whose
\* position is open at the broker
C15_Witness ==
    /\ lastOp = "updateLearningData.resolve"
    /\ ~isConnected
    /\ \E j \in Resolved : signalHistory[j].ticket \in OpenAtBroker

\* C18: for a position with entry 1.1000, stop 1.0950 and current price
\* 1.1080 the stop is moved to the entry once: the cycle that finds the
\* stop at 1.0950 asks for one modification to 1.1000, a stop at the entry
\* stays there, and a cycle that finds it there asks for no modification.
ExamplePosition(position) ==
    /\ position.openPrice = 11000
    /\ position.currentPrice = 11080

Modifications(ticket) ==
    {k \in 1..Len(monitorLog) :
        monitorLog[k].op = "modifyPosition" /\ monitorLog[k].ticket = ticket}

C18_BreakEvenOnce ==
    /\ []((lastOp = "monitorPositions" /\ monitored # None) =>
            \A i \in 1..Len(monitored[1]) :
               LET position == monitored[1][i] IN
               ExamplePosition(position) =>
                  /\ position.stopLoss = 10950 =>
                        /\ Cardinality(Modifications(position.ticket)) = 1
                        /\ \A k \in Modifications(position.ticket) :
                              monitorLog[k].stopLoss = 11000
                  /\ position.stopLoss = 11000 => Modifications(position.ticket) = {})
    /\ [][\A i \in 1..Len(brokerPositions), k \in 1..Len(brokerPositions') :
             (/\ brokerPositions[i].ticket = brokerPositions'[k].ticket
              /\ brokerPositions[i].stopLoss = brokerPositions[i].openPrice)
             => brokerPositions'[k].stopLoss = brokerPositions'[k].openPrice
          ]_vars

\* the second cycle: the stop is at the entry, the prices are the same and
\* no modification is asked for
C18_Witness ==
    /\ lastOp = "monitorPositions"
    /\ monitored # None
    /\ \E i \in 1..Len(monitored[1]) :
          /\ ExamplePosition(monitored[1][i])
          /\ monitored[1][i].stopLoss = 11000
          /\ Modifications(monitored[1][i].ticket) = {}

\* ---- the SMC strategy
ShortWindowCall ==
    /\ lastOp' = "analyze"
    /\ Len(analyzeCall'[1].ohlc) < 50

\* C20: for every bar window shorter than 50 bars analyze returns none
\* without an error and derives no structure from the window: the
\* order-block, liquidity-zone and fair-value-gap sets are left as they
\* were (empty in a strategy that was given no longer window before).
C20_ShortWindowYieldsNothing ==
    [][ShortWindowCall =>
          /\ analyzeCall'[1].result = None
          /\ orderBlocks' = orderBlocks
          /\ liquidityZones' = liquidityZones
          /\ fairValueGaps' = fairValueGaps
      ]_vars

\* an active strategy was given the 49 bars that hold a rejection candle
\* at bar 20 (an order block, a support pivot and a gap, were they looked
\* for) with the price inside the gap; it returned none and holds nothing
C20_Witness ==
    /\ lastOp = "analyze"
    /\ strategyActive["SMC"]
    /\ analyzeCall # None
    /\ analyzeCall[1].ohlc = Window(49, 20)
    /\ analyzeCall[1].bid = 10030
    /\ analyzeCall[1].result = None
    /\ orderBlocks = <<>> /\ liquidityZones = <<>> /\ fairValueGaps = <<>>
    /\ updateOrderBlocks(Window(49, 20)) # <<>>
    /\ updateFairValueGaps(Window(49, 20)) # <<>>

\* the candidates the three categories gave in the last call
GivenCandidates ==
    LET call == analyzeCall[1]
        signals == SignalsInTurn(call.symbol, call.ohlc, call.bid,
                                 orderBlocks, liquidityZones, fairValueGaps)
    IN  {signals[i][1] : i \in {j \in 1..3 : signals[j] # None}}

ConfidenceAtLeastHalf(signal) == signal.confidence.num * 2 >= signal.confidence.den

\* |takeProfit - entry| / |entry - stopLoss| >= 1.5, the risk being above 0
RewardRiskAtLeast15(signal) ==
    /\ Abs(signal.entry - signal.stopLoss) > 0
    /\ Abs(signal.takeProfit - signal.entry) * 2 >= Abs(signal.entry - signal.stopLoss) * 3

Emitted ==
    /\ lastOp = "analyze"
    /\ analyzeCall # None
    /\ analyzeCall[1].result # None

\* C21: every signal analyze returns has confidence >= 0.5 and reward :
\* risk >= 1.5, and it is one of the candidates of the call; a candidate
\* that fails either bound is not what the call returns.
C21_EmittedSignalsAreValid ==
    Emitted =>
        LET signal == analyzeCall[1].result[1]
        IN  /\ ConfidenceAtLeastHalf(signal)
            /\ RewardRiskAtLeast15(signal)
            /\ signal \in GivenCandidates

\* a call in which the order-block candidate failed the reward : risk
\* bound and the call returned another candidate, and a call in which the
\* liquidity candidate failed the confidence bound and nothing was returned
C21_Witness ==
    /\ lastOp = "analyze"
    /\ analyzeCall # None
    /\ strategyActive["SMC"]
    /\ Len(analyzeCall[1].ohlc) >= 50
    /\ \/ /\ analyzeCall[1].result # None
          /\ \E c \in GivenCandidates :
                ConfidenceAtLeastHalf(c) /\ ~RewardRiskAtLeast15(c)
       \/ /\ analyzeCall[1].result = None
          /\ \E c \in GivenCandidates : ~ConfidenceAtLeastHalf(c)

\* ---- the weight maps
StoredSymbolWeights(sp) == UNION {{<<y, s>> : s \in DOMAIN sp[y]} : y \in DOMAIN sp}

WeightsUnchanged ==
    /\ strategyWeights' = strategyWeights
    /\ symbolPerformance' = symbolPerformance

\* C22: the weight maps change only in updateFromTrade, and one call
\* changes (or creates) only the strategy weight of the trade's strategy
\* and the symbol weight of the trade's (symbol, strategy) pair: every
\* other stored weight stays as it was, none is removed and none is added;
\* a call with a pending outcome changes nothing.
C22_WeightsChangeOnlyInUpdate ==
    [][ /\ lastOp' # "updateFromTrade" => WeightsUnchanged
        /\ lastOp' = "updateFromTrade" =>
              LET signal == lastTrade'[1].signal
                  touched == <<signal.symbol, signal.strategy>>
              IN  /\ lastTrade'[1].outcome = None => WeightsUnchanged
                  /\ DOMAIN strategyWeights \subseteq DOMAIN strategyWeights'
                  /\ DOMAIN strategyWeights' \subseteq
                        (DOMAIN strategyWeights) \cup {signal.strategy}
                  /\ \A s \in (DOMAIN strategyWeights) \ {signal.strategy} :
                        strategyWeights'[s] = strategyWeights[s]
                  /\ StoredSymbolWeights(symbolPerformance)
                        \subseteq StoredSymbolWeights(symbolPerformance')
                  /\ StoredSymbolWeights(symbolPerformance') \subseteq
                        StoredSymbolWeights(symbolPerformance) \cup {touched}
                  /\ \A ys \in StoredSymbolWeights(symbolPerformance) \ {touched} :
                        symbolPerformance'[ys[1]][ys[2]] = symbolPerformance[ys[1]][ys[2]]
      ]_vars

\* a win of ICT on GBPUSD was fed back after the SMC strategy had lost on
\* EURUSD: the weights the loss created for the strategy's name and for
\* its pair with EURUSD are as the loss left them
C22_Witness ==
    /\ lastOp = "updateFromTrade"
    /\ lastTrade = Some([signal |-> [strategy |-> "ICT", symbol |-> "GBPUSD"],
                         outcome |-> Some([result |-> "win"])])
    /\ strategyWeights
         = MapSet(MapSet([s \in PresetStrategies |-> DefaultWeight], SMCName, 98), "ICT", 105)
    /\ symbolPerformance
         = MapSet(MapSet(<<>>, "EURUSD", MapSet(<<>>, SMCName, 99)),
                  "GBPUSD", MapSet(<<>>, "ICT", 103))

\* ---- validation leaves its input alone
\* C23: validateTrade does not modify the signal it is given: the object
\* passed is after the call what it was before, the adjusted signal of a
\* valid result equals it in every field except possibly takeProfit, and
\* the call leaves the risk parameters and the day-start balance unchanged.
C23_ValidationLeavesInput ==
    [][lastOp' = "validateTrade" =>
          /\ validation'[1].argument = validation'[1].signal
          /\ validation'[1].result.adjustedSignal # None =>
                [validation'[1].result.adjustedSignal[1]
                    EXCEPT !.takeProfit = validation'[1].signal.takeProfit]
                  = validation'[1].signal
          /\ riskParams' = riskParams
          /\ dailyStartBalance' = dailyStartBalance
      ]_vars

\* a valid result whose adjusted signal has another takeProfit than the
\* signal passed, with a day-start balance and parameters that were set
\* by earlier calls
C23_Witness ==
    /\ lastOp = "validateTrade"
    /\ validation[1].result.isValid
    /\ validation[1].result.adjustedSignal[1].takeProfit # validation[1].signal.takeProfit
    /\ validation[1].argument.takeProfit = validation[1].signal.takeProfit
    /\ dailyStartBalance > 0
    /\ riskParams # DefaultRiskParams

\* ---- the status report
Elements(seq) == {seq[i] : i \in 1..Len(seq)}

\* C24: in every state getStatus() reports isRunning as the running flag
\* is, activeStrategies as the registered strategies that are active
\* (none right after stop()), monitoredSymbols as the current symbol set,
\* each symbol once, and totalSignals as the number of executed signals
\* recorded so far: it grows by one with every successful order and
\* never decreases.
StatusAsState ==
    /\ getStatus.isRunning <=> isRunning
    /\ Elements(getStatus.activeStrategies)
         = {name \in RegisteredStrategies : strategyActive[name]}
    /\ lastOp = "stop" => getStatus.activeStrategies = <<>>
    /\ Elements(getStatus.monitoredSymbols) = activeSymbols
    /\ Len(getStatus.monitoredSymbols) = Cardinality(activeSymbols)

C24_StatusReportsState ==
    /\ []StatusAsState
    /\ [][getStatus'.totalSignals
            = getStatus.totalSignals + (IF OrderSucceeded THEN 1 ELSE 0)]_vars

\* stop() has just returned after an order was executed and recorded and
\* EURUSD was removed: no strategy is reported active, the three other
\* default symbols are reported and the executed signal is still counted
C24_Witness ==
    /\ lastOp = "stop"
    /\ ~getStatus.isRunning
    /\ getStatus.activeStrategies = <<>>
    /\ getStatus.monitoredSymbols = <<"GBPUSD", "USDCAD", "AUDUSD">>
    /\ getStatus.totalSignals = 1
    /\ Len(signalHistory) = 1

\* ---- the categories of one analysis
AnalyzeRan ==
    /\ lastOp = "analyze"
    /\ analyzeCall # None
    /\ strategyActive["SMC"]
    /\ Len(analyzeCall[1].ohlc) >= 50

CategorySignals ==
    SignalsInTurn(analyzeCall[1].symbol, analyzeCall[1].ohlc, analyzeCall[1].bid,
                  orderBlocks, liquidityZones, fairValueGaps)

\* the categories (1 order block, 2 liquidity grab, 3 fair-value gap) that
\* have a match which passes validateSignal
ValidCategories ==
    {i \in 1..3 : CategorySignals[i] # None /\ validateSignal(CategorySignals[i][1])}

CandidatesYielded == IF analyzeCall[1].result = None THEN 0 ELSE 1

\* C25: the three categories are evaluated independently and each
\* category with a valid match yields a candidate of the analysis, so that
\* two or three valid categories give two or three candidates.
C25_EveryValidCategoryYields ==
    AnalyzeRan => CandidatesYielded = Cardinality(ValidCategories)

\* the price is in an order block and in a fair-value gap, both matches
\* are valid, and the analysis returned the order-block signal alone
C25_Witness ==
    /\ AnalyzeRan
    /\ ValidCategories = {1, 3}
    /\ CategorySignals[1] # CategorySignals[3]
    /\ analyzeCall[1].result = CategorySignals[1]
    /\ CandidatesYielded = 1

\* ---- fair-value gaps over several cycles
PriceInGap(gap, price) == price >= gap.bottom /\ price <= gap.top

SameGap(a, b) == a.type = b.type /\ a.top = b.top /\ a.bottom = b.bottom

\* the signal the generator gives for the one gap, were it unfilled
GapSignal(call, gap) ==
    SignalsInTurn(call.symbol, call.ohlc, call.bid, <<>>, <<>>,
                  <<[gap EXCEPT !.filled = FALSE]>>)[3]

\* C26: a fair-value gap the price was in during one cycle is, after a
\* later cycle over a window that still contains it, held as filled, and
\* that later cycle returns no fair-value-gap signal for it.
C26_FilledGapStaysFilled ==
    [][(AnalyzeRan /\ AnalyzeRan') =>
          \A i \in 1..Len(fairValueGaps), j \in 1..Len(fairValueGaps') :
             (/\ PriceInGap(fairValueGaps[i], analyzeCall[1].bid)
              /\ SameGap(fairValueGaps[i], fairValueGaps'[j]))
             => /\ fairValueGaps'[j].filled
                /\ \/ analyzeCall'[1].result = None
                   \/ analyzeCall'[1].result # GapSignal(analyzeCall'[1], fairValueGaps'[j])
      ]_vars

\* a cycle has run with the price inside the gap of the window and has
\* returned the gap's signal; the gap is held unfilled, as the next cycle
\* over the same window will hold it again
C26_Witness ==
    /\ AnalyzeRan
    /\ \E i \in 1..Len(fairValueGaps) :
          /\ PriceInGap(fairValueGaps[i], analyzeCall[1].bid)
          /\ ~fairValueGaps[i].filled
          /\ analyzeCall[1].result # None
          /\ analyzeCall[1].result = GapSignal(analyzeCall[1], fairValueGaps[i])
          /\ updateFairValueGaps(analyzeCall[1].ohlc)[i] = fairValueGaps[i]

\* ---- the sets and the window
\* C27: after analyze has run on a window of at least 50 bars (the
\* strategy being active) the three retained sets are what the detectors
\* derive from that window and nothing else, whatever was analysed
\* before, and the signal returned is the one the generator derives from
\* those sets of that window.
C27_SetsOfTheWindow ==
    AnalyzeRan =>
        LET call == analyzeCall[1] IN
        /\ orderBlocks = updateOrderBlocks(call.ohlc)
        /\ liquidityZones = updateLiquidityZones(call.ohlc)
        /\ fairValueGaps = updateFairValueGaps(call.ohlc)
        /\ call.result
             = FirstValid(SignalsInTurn(call.symbol, call.ohlc, call.bid,
                                        updateOrderBlocks(call.ohlc),
                                        updateLiquidityZones(call.ohlc),
                                        updateFairValueGaps(call.ohlc)))

\* the window with the twice-touched support was analysed: all three sets
\* hold structures of it
C27_Witness ==
    /\ AnalyzeRan
    /\ analyzeCall[1].ohlc = GrabWindow(60, 20, 2)
    /\ Len(orderBlocks) = 1 /\ Len(fairValueGaps) = 1
    /\ \E i \in 1..Len(liquidityZones) :
          liquidityZones[i].level = 9960 /\ liquidityZones[i].strength = 50
    /\ orderBlocks # updateOrderBlocks(Window(60, 20))
           \/ liquidityZones # updateLiquidityZones(Window(60, 20))

\* ---- the retained order blocks
Discarded ==
    LET found == FoundOrderBlocks(analyzeCall[1].ohlc, 10)
    IN  {found[i] : i \in 1..Len(found)} \ Elements(orderBlocks)

\* C28: after a detection cycle at most 10 order blocks are retained,
\* they are blocks the cycle found (all of them if it found at most 10),
\* and no block the cycle discarded is strictly stronger than a retained
\* one.
C28_TenStrongestRetained ==
    AnalyzeRan =>
        LET found == FoundOrderBlocks(analyzeCall[1].ohlc, 10) IN
        /\ Len(orderBlocks) = Min(10, Len(found))
        /\ Elements(orderBlocks) \subseteq {found[i] : i \in 1..Len(found)}
        /\ Cardinality(Elements(orderBlocks)) = Len(orderBlocks)
        /\ \A d \in Discarded, r \in Elements(orderBlocks) :
              ~StrengthLess(r.strength, d.strength)

\* the rising window was analysed: 45 blocks were found, 35 discarded,
\* among them one as strong as the weakest retained and later than it,
\* and the retained ten are not the first ten found
C28_Witness ==
    /\ AnalyzeRan
    /\ Len(FoundOrderBlocks(analyzeCall[1].ohlc, 10)) = 45
    /\ Len(orderBlocks) = 10
    /\ Cardinality(Discarded) = 35
    /\ orderBlocks # Slice10(FoundOrderBlocks(analyzeCall[1].ohlc, 10))
    /\ \E d \in Discarded : StrengthLess(d.strength, orderBlocks[10].strength)

\* ---- which bars become order blocks
Retained(i, type) ==
    \E b \in Elements(orderBlocks) : b.index = i /\ b.type = type

StrengthAbove50(i, type) ==
    \A b \in Elements(orderBlocks) :
       (b.index = i /\ b.type = type) => StrengthLess([num |-> 50, den |-> 1], b.strength)

\* C29: after a detection cycle a bar of the window is held as a bullish
\* (bearish) order block exactly when it satisfies the bullish (bearish)
\* rule, unless ten stronger blocks were retained in its place; a block
\* whose wick is twice its body has strength above 50.
C29_OrderBlocksByRule ==
    AnalyzeRan =>
        LET ohlc == analyzeCall[1].ohlc IN
        \A i \in 0..(Len(ohlc) - 1) :
           /\ Retained(i, "bullish") => isBullishOrderBlock(ohlc, i)
           /\ Retained(i, "bearish") => isBearishOrderBlock(ohlc, i)
           /\ isBullishOrderBlock(ohlc, i)
                => (Retained(i, "bullish") \/ Len(orderBlocks) = 10)
           /\ isBearishOrderBlock(ohlc, i)
                => (Retained(i, "bearish") \/ Len(orderBlocks) = 10)
           /\ lowerWick(Bar(ohlc, i)) = 2 * bodySize(Bar(ohlc, i))
                => StrengthAbove50(i, "bullish")

\* a window of 50 bars was analysed whose bar 5 is a bullish candle with a
\* lower wick of twice its body, followed by two bars that close above
\* its high: no order block is held
C29_Witness ==
    /\ AnalyzeRan
    /\ analyzeCall[1].ohlc = Window(50, 5)
    /\ lowerWick(Bar(analyzeCall[1].ohlc, 5)) = 2 * bodySize(Bar(analyzeCall[1].ohlc, 5))
    /\ Bar(analyzeCall[1].ohlc, 5).close > Bar(analyzeCall[1].ohlc, 5).open
    /\ Bar(analyzeCall[1].ohlc, 6).close > Bar(analyzeCall[1].ohlc, 5).high
    /\ Bar(analyzeCall[1].ohlc, 7).close > Bar(analyzeCall[1].ohlc, 5).high
    /\ isBullishOrderBlock(analyzeCall[1].ohlc, 5)
    /\ orderBlocks = <<>>

\* ---- every position of a monitoring cycle
Reverse(seq) == [i \in 1..Len(seq) |-> seq[Len(seq) + 1 - i]]

RequestsFor(log, ticket) ==
    SelectSeq(log, LAMBDA r : r.ticket = ticket /\ r.op # "error")

\* C30: in a monitoring cycle that obtained the position list, every
\* position of the list is checked: the requests sent for it are the
\* ones its own fields call for (with the manager's parameters), they are
\* the same when the list comes in the opposite order, no request
\* concerns another ticket, and a failed request for one position takes
\* nothing from the requests for the others.
C30_EveryPositionChecked ==
    (lastOp = "monitorPositions" /\ monitored # None) =>
        LET positions == monitored[1] IN
        /\ \A i \in 1..Len(positions) :
              /\ RequestsFor(monitorLog, positions[i].ticket)
                   = applyPositionRiskManagement(positions[i])
              /\ RequestsFor(monitorPositions(Reverse(positions), {}), positions[i].ticket)
                   = RequestsFor(monitorLog, positions[i].ticket)
        /\ \A k \in 1..Len(monitorLog) :
              \E i \in 1..Len(positions) : positions[i].ticket = monitorLog[k].ticket

\* the request for the first position of the list failed, and the close
\* the second position calls for was sent after it
C30_Witness ==
    /\ lastOp = "monitorPositions"
    /\ monitored # None
    /\ Len(monitored[1]) >= 2
    /\ \E k \in 1..Len(monitorLog) :
          /\ monitorLog[k] = [op |-> "error", ticket |-> monitored[1][1].ticket]
          /\ \E n \in (k + 1)..Len(monitorLog) :
                /\ monitorLog[n].op = "closePosition"
                /\ monitorLog[n].ticket = monitored[1][2].ticket
                /\ shouldEmergencyClose(monitored[1][2])

\* the live timers of a kind
TimersOf(kind) == {t \in timers : t.kind = kind}

\* C31: across any sequence of start() and stop() calls at most one analysis
\* timer and at most one position-monitoring timer are live
C31_OneTimerOfEachKind ==
    \A kind \in {"analysis", "monitor"} : Cardinality(TimersOf(kind)) <= 1

\* start() after stop() has left two monitoring timers, and one of them has
\* just fired in the running orchestrator
C31_Witness ==
    /\ isRunning
    /\ Cardinality(TimersOf("monitor")) = 2
    /\ Cardinality(TimersOf("analysis")) = 1
    /\ lastOp = "monitorTick"

\* start() twice in a row: two analysis timers, one of them no longer named
\* by analysisInterval, so that no stop() can clear it
C31_TwoAnalysisTimers ==
    /\ Cardinality(TimersOf("analysis")) = 2
    /\ \E t \in TimersOf("analysis") : analysisInterval # Some(t.id)

\* validateTrade or monitorPositions has just run in the orchestrator
RiskManagerRan ==
    \/ lastOp = "validateTrade"
    \/ lastOp = "monitorTick" /\ isRunning

\* C32: whenever validateTrade or monitorPositions runs after a successful
\* start(), the day-start balance is an observed account balance, not the
\* initial 0, so that the daily-loss limit (dailyStartBalance * maxDailyLoss
\* / 100) and the emergency-close threshold (dailyStartBalance *
\* maxRiskPerTrade * 2 / 100) are positive
C32_DayStartBalanceObserved ==
    RiskManagerRan =>
        /\ dailyStartBalance > 0
        /\ dailyStartBalance * riskParams.maxDailyLoss > 0
        /\ dailyStartBalance * riskParams.maxRiskPerTrade * 2 > 0

\* validateTrade has accepted a signal on an account of 10000 with the
\* day-start balance still 0: its daily-loss limit was 0
C32_Witness ==
    /\ lastOp = "validateTrade"
    /\ validation # None
    /\ validation[1].result.isValid
    /\ isRunning
    /\ dailyStartBalance = 0

\* C33: the number of open positions never exceeds maxOpenPositions as a
\* result of orders placed by the engine, also when analysis cycles overlap
\* or two signals are validated before either order is submitted
C33_OpenPositionsWithinLimit ==
    Len(brokerPositions) <= riskParams.maxOpenPositions

\* two orders of the engine were filled, both validated while the account
\* held maxOpenPositions - 1 positions; it now holds maxOpenPositions + 1
C33_Witness ==
    /\ lastOp = "executeSignal.submit"
    /\ Len(signalHistory) = 2
    /\ Len(brokerPositions) = riskParams.maxOpenPositions + 1

\* stop() has returned and start() has not been called since
StoppedNow == ~isRunning /\ startsInFlight = 0

\* C34: after stop() returns and until start() is called again no analysis
\* or monitoring cycle begins, no market order, modification or close is
\* submitted, and no weight or history entry changes, also for a cycle that
\* was in flight when stop() was called
C34_QuietAfterStop ==
    [][(StoppedNow /\ startsInFlight' = 0) =>
          /\ BagCardinality(cycles') <= BagCardinality(cycles)
          /\ BagCardinality(monitors') <= BagCardinality(monitors)
          /\ lastRequest' = None
          /\ monitorLog' = <<>>
          /\ UNCHANGED <<signalHistory, strategyWeights, symbolPerformance>>
      ]_vars

\* the orchestrator is stopped, and the monitoring callback that was in
\* flight at stop() has just given a pending entry its outcome and changed
\* the weights
C34_Witness ==
    /\ StoppedNow
    /\ lastOp = "updateLearningData.resolve"
    /\ Resolved # {}
    /\ Weights # InitialWeights

\* the step is a pass of updateLearningData's loop that called
\* updateFromTrade (the callback stays in flight, at its await)
UpdateCalled ==
    /\ lastOp' = "updateLearningData.resolve"
    /\ BagCardinality(monitors') = BagCardinality(monitors)

\* C35: each history entry goes from pending to resolved at most once, is
\* never changed after it is resolved, and causes exactly one
\* updateFromTrade call, also when two monitoring cycles overlap: a resolved
\* entry stays as it is, a step resolves at most one entry, and
\* updateFromTrade is called in exactly the steps that resolve an entry,
\* with that entry
C35_ResolvedOnce ==
    [][/\ Len(signalHistory') = Len(signalHistory)
       /\ \A j \in Resolved : signalHistory'[j] = signalHistory[j]
       /\ \A j, k \in 1..Len(signalHistory) : (ResolvedNow(j) /\ ResolvedNow(k)) => j = k
       /\ UpdateCalled <=> \E j \in 1..Len(signalHistory) : ResolvedNow(j)
       /\ \A j \in 1..Len(signalHistory) :
             ResolvedNow(j) => Weights' = ApplyTrade(Weights, signalHistory'[j])
       /\ ~UpdateCalled => Weights' = Weights
      ]_vars

\* two callbacks are in their loops, both with position lists that hold
\* none of the tickets; one of them has resolved every entry and the other
\* has yet to pass them
C35_Witness ==
    /\ lastOp = "updateLearningData.resolve"
    /\ Resolved = 1..Len(signalHistory)
    /\ Len(signalHistory) = 2
    /\ BagCardinality(monitors) = 2
    /\ \A m \in BagToSet(monitors) : m.pc = "resolve" /\ m.openTickets = {}
    /\ \E m \in BagToSet(monitors) : m.i = 0

\* C36: when a history entry whose signal was produced by a registered
\* strategy is resolved, the performance record that
\* getStrategyPerformances() returns for that strategy has totalTrades
\* increased by one
C36_OutcomeCountedForStrategy ==
    [][\A j \in 1..Len(signalHistory), k \in RegisteredStrategies :
          (ResolvedNow(j) /\ signalHistory[j].signal.strategy = getName[k]) =>
             getStrategyPerformances'[k].totalTrades
                = getStrategyPerformances[k].totalTrades + 1
      ]_vars

\* both entries, signals of the SMC strategy, are resolved and the record of
\* the SMC strategy still counts no trade
C36_Witness ==
    /\ lastOp = "updateLearningData.resolve"
    /\ Resolved = 1..Len(signalHistory)
    /\ \A j \in Resolved : signalHistory[j].signal.strategy = getName["SMC"]
    /\ getStrategyPerformances["SMC"].totalTrades = 0

\* the stop and the target lie on opposite sides of the entry, the stop
\* against the trade's direction
AroundEntry(signal) ==
    /\ signal.action = "BUY" =>
          signal.stopLoss < signal.entry /\ signal.entry < signal.takeProfit
    /\ signal.action = "SELL" =>
          signal.takeProfit < signal.entry /\ signal.entry < signal.stopLoss

\* C37: every signal analyze emits has its stop and its target on opposite
\* sides of the entry in the trade's direction: a BUY has stopLoss < entry <
\* takeProfit, a SELL has takeProfit < entry < stopLoss
C37_StopAndTargetAroundEntry ==
    Emitted => AroundEntry(analyzeCall[1].result[1])

\* analyze has returned a BUY that passed validateSignal and whose stop is
\* not below its entry
C37_Witness ==
    /\ Emitted
    /\ analyzeCall[1].result[1].action = "BUY"
    /\ validateSignal(analyzeCall[1].result[1])
    /\ analyzeCall[1].result[1].stopLoss >= analyzeCall[1].result[1].entry

\* C38: for every resolved history entry the result fed to updateFromTrade
\* agrees with the profit recorded for the same trade: the result is win
\* exactly when the profit is positive
C38_ResultAgreesWithProfit ==
    \A j \in Resolved :
        signalHistory[j].outcome[1].result = "win"
            <=> signalHistory[j].outcome[1].profit > 0

\* an entry was resolved as a win with a negative profit, and the weight of
\* its strategy was raised for it
C38_Witness ==
    /\ lastOp = "updateLearningData.resolve"
    /\ Resolved = {1}
    /\ signalHistory[1].outcome[1].result = "win"
    /\ signalHistory[1].outcome[1].profit < 0
    /\ strategyWeights[signalHistory[1].signal.strategy] = DefaultWeight + StrategyWinStep

\* the symbol was removed by removeSymbol and is not monitored
Removed(symbol) ==
    /\ \E i \in 1..Len(symbolEntries) :
          symbolEntries[i].symbol = symbol /\ ~symbolEntries[i].live
    /\ ~IsLive(symbolEntries, symbol)

\* C39: a symbol removed with removeSymbol is not analysed in any analysis
\* cycle that begins afterwards, through any sequence of start() and stop()
\* calls, until addSymbol adds it again: a removed symbol is not analysed,
\* and it stays removed through every step but an addSymbol
C39_RemovedUntilAdded ==
    [][\A i \in 1..Len(symbolEntries) :
          Removed(symbolEntries[i].symbol) =>
             /\ ~Removed(symbolEntries[i].symbol)' => lastOp' = "addSymbol"
             /\ ~(/\ lastOp' = "analyzeSymbol"
                  /\ analysed' # None
                  /\ analysed'[1].symbol = symbolEntries[i].symbol)
      ]_vars

\* EURUSD was removed, no addSymbol has named it, and after a further
\* start() an analysis cycle has just analysed it
C39_Witness ==
    /\ lastOp = "analyzeSymbol"
    /\ analysed # None
    /\ analysed[1].symbol = "EURUSD"
    /\ \E i \in 1..Len(symbolEntries) :
          symbolEntries[i].symbol = "EURUSD" /\ ~symbolEntries[i].live

\* C40: each request sent through sendRequest is resolved only by the
\* response to that request or by its own timeout (null): when two requests
\* are outstanding at once, neither is resolved with the other's response
\* data
C40_ResolvedByOwnResponse ==
    \A i \in 1..Len(sentRequests) :
        sentRequests[i].resolution # None =>
            sentRequests[i].resolution[1] \in {ResponseData(i), NullData}

\* two requests with different actions were sent in the same millisecond,
\* and the response to the first has just resolved the second one as well
C40_Witness ==
    /\ lastOp = "response"
    /\ Len(sentRequests) = 2
    /\ sentRequests[1].id = sentRequests[2].id
    /\ sentRequests[1].action # sentRequests[2].action
    /\ sentRequests[1].answered /\ ~sentRequests[2].answered
    /\ sentRequests[2].resolution = Some(ResponseData(1))

====
